---- MODULE Spec2Model ----
(***************************************************************************)
(* Multi-sensor fusion engine (backend/sensors/fusion.py, SensorFusion)    *)
(* and independent object tracker (backend/sensors/tracker.py,             *)
(* ObjectTracker), each modelled as a state machine whose actions are the  *)
(* engine's public calls, run to completion.                               *)
(*                                                                         *)
(* Numbers.  The code computes in Python floats; the model computes in     *)
(* exact arithmetic over scaled integers:                                  *)
(*   - lengths (box coordinates, positions) in 1/100 of a pixel,           *)
(*   - velocities in 1/100 pixel per second,                               *)
(*   - confidences in 1/1000 (0.9 is 900, 1.0 is 1000),                    *)
(*   - an IoU as the pair <<intersection, union>> it is the quotient of.   *)
(* A call whose result is not representable at this resolution is outside  *)
(* the model's bounds (the Exact guards); no value is ever rounded.        *)
(*                                                                         *)
(* A detection is a Python dict: a function whose DOMAIN is the set of     *)
(* keys it carries, so that dict.get(key, default) is Get below.           *)
(* A Python dict of tracks is a sequence of records in insertion order.    *)
(* Wall-clock fields (first_seen, last_seen, timestamp) and random uuids   *)
(* are left out: no operation reads them.                                  *)
(***************************************************************************)
EXTENDS Integers, Sequences, FiniteSets, TLC

VARIABLES
    f_sensors,          \* SensorFusion.sensors: <<sensor_id, sensor_type>> in key order
    f_tracks,           \* SensorFusion.tracks: FusedDetection records in key order
    f_kalman_filters,   \* SensorFusion.kalman_filters: track id -> KalmanFilter.state
    f_next_track_id,    \* SensorFusion.next_track_id
    f_out,              \* what the last call on the fusion engine returned
    f_hist,             \* history: ids allocated so far, and the last update's matching
    f_calls,            \* history: number of update calls so far
    t_tracks,           \* ObjectTracker.tracks: TrackedObject records in key order
    t_next_id,          \* ObjectTracker.next_id
    t_out,              \* what the last call on the tracker returned
    t_hist,             \* history: ids allocated, and the last update's matching
    t_calls,            \* history: number of update calls since the last reset
    h_requests,         \* request layer: the requests received, each with its handler,
                        \* argument, position in the handler body and response
    n_tracks,           \* a second ObjectTracker, constructed when the first was last
    n_next_id,          \* reset and given the same calls since: its tracks, its next_id
    n_out               \* and what its last call returned

fvars == <<f_sensors, f_tracks, f_kalman_filters, f_next_track_id, f_out, f_hist, f_calls>>
tvars == <<t_tracks, t_next_id, t_out, t_hist, t_calls>>
hvars == <<h_requests>>
nvars == <<n_tracks, n_next_id, n_out>>
vars == <<f_sensors, f_tracks, f_kalman_filters, f_next_track_id, f_out, f_hist, f_calls,
          t_tracks, t_next_id, t_out, t_hist, t_calls, h_requests,
          n_tracks, n_next_id, n_out>>

-----------------------------------------------------------------------------
(* Python helpers *)

\* dict.get(key, default)
Get(d, k, default) == IF k \in DOMAIN d THEN d[k] ELSE default

Max(a, b) == IF a >= b THEN a ELSE b
Min(a, b) == IF a <= b THEN a ELSE b

\* list.remove(x): drops the first element equal to x
RECURSIVE ListRemove(_, _)
ListRemove(s, x) ==
    IF s = <<>> THEN <<>>
    ELSE IF Head(s) = x THEN Tail(s)
    ELSE <<Head(s)>> \o ListRemove(Tail(s), x)

SeqToSet(s) == { s[i] : i \in 1..Len(s) }

\* x in list
InList(x, s) == \E i \in 1..Len(s) : s[i] = x

\* format(n, "04d") and format(n, "05d"): decimal digits, zero-padded to the width
RECURSIVE ZeroPad(_, _)
ZeroPad(str, width) == IF Len(str) >= width THEN str ELSE ZeroPad("0" \o str, width)

-----------------------------------------------------------------------------
(* Exact comparison of quotients of integers *)

\* a/b < c/d for a, c >= 0 and b, d > 0, without forming the cross products
RECURSIVE FracLess(_, _, _, _)
FracLess(a, b, c, d) ==
    LET qa == a \div b
        qc == c \div d
        ra == a % b
        rc == c % d
    IN  IF qa # qc THEN qa < qc
        ELSE IF rc = 0 THEN FALSE
        ELSE IF ra = 0 THEN TRUE
        ELSE FracLess(d, rc, b, ra)

-----------------------------------------------------------------------------
(* Fusion engine: parameters (SensorFusion.__init__) *)

\* mutation of f_iou_threshold: association asks for an IoU above one half
FIouThresholdHalf == <<1, 2>>

f_iou_threshold == <<3, 10>>    \* self.iou_threshold = 0.3, as a quotient
f_max_age == 30                 \* self.max_age = 30

\* the default box of a detection that carries no 'bbox' key: [0, 0, 100, 100]
DefaultBBox == <<0, 0, 10000, 10000>>
\* mutation of DefaultConfidence: another default
DefaultConfidenceLow == 500 - 400

\* the default confidence, 0.5, and class, 'unknown', of detection.get
DefaultConfidence == 500
DefaultClass == "unknown"

\* f"T{self.next_track_id:04d}"
FTrackIdOf(n) == "T" \o ZeroPad(ToString(n), 4)

-----------------------------------------------------------------------------
(* Geometry *)

\* mutation of FCalculateIoU: the union counts the intersection twice
FCalculateIoUSumOfAreas(box1, box2) ==
    LET x1 == box1[1]  y1 == box1[2]  w1 == box1[3]  h1 == box1[4]
        x2 == box2[1]  y2 == box2[2]  w2 == box2[3]  h2 == box2[4]
        xi1 == Max(x1, x2)
        yi1 == Max(y1, y2)
        xi2 == Min(x1 + w1, x2 + w2)
        yi2 == Min(y1 + h1, y2 + h2)
        intersection == Max(0, xi2 - xi1) * Max(0, yi2 - yi1)
        union == w1 * h1 + w2 * h2
    IN  IF union > 0 THEN <<intersection, union>> ELSE <<0, 1>>

\* SensorFusion._calculate_iou: the quotient intersection / union, or 0
FCalculateIoU(box1, box2) ==
    LET x1 == box1[1]  y1 == box1[2]  w1 == box1[3]  h1 == box1[4]
        x2 == box2[1]  y2 == box2[2]  w2 == box2[3]  h2 == box2[4]
        xi1 == Max(x1, x2)
        yi1 == Max(y1, y2)
        xi2 == Min(x1 + w1, x2 + w2)
        yi2 == Min(y1 + h1, y2 + h2)
        intersection == Max(0, xi2 - xi1) * Max(0, yi2 - yi1)
        union == w1 * h1 + w2 * h2 - intersection
    IN  IF union > 0 THEN <<intersection, union>> ELSE <<0, 1>>

\* a call of _calculate_iou: "x1, y1, w1, h1 = box1" raises on None and on []
FCalculateIoUCall(box1, box2) ==
    IF Len(box1) # 4 \/ Len(box2) # 4
    THEN [op |-> "_calculate_iou", box1 |-> box1, box2 |-> box2, raised |-> TRUE]
    ELSE [op |-> "_calculate_iou", box1 |-> box1, box2 |-> box2, raised |-> FALSE,
          result |-> FCalculateIoU(box1, box2)]

\* iou1 > iou2 on quotients
IouGreater(iou1, iou2) == FracLess(iou2[1], iou2[2], iou1[1], iou1[2])

\* the centre [bbox[0] + bbox[2]/2, bbox[1] + bbox[3]/2] of a box
Centroid(bbox) == <<bbox[1] + bbox[3] \div 2, bbox[2] + bbox[4] \div 2>>
CentroidExact(bbox) == bbox[3] % 2 = 0 /\ bbox[4] % 2 = 0

-----------------------------------------------------------------------------
(* State estimator (KalmanFilter); state is <<x, y, vx, vy>> *)

\* mutation of KalmanUpdate: the weights of the measurement and of the state are swapped
KalmanUpdateWeightsSwapped(state, measurement) ==
    <<(3 * measurement[1] + 7 * state[1]) \div 10,
      (3 * measurement[2] + 7 * state[2]) \div 10,
      state[3], state[4]>>

\* mutation of KalmanUpdate: the velocity is estimated from the position change
KalmanUpdateEstimatesVelocity(state, measurement) ==
    <<(7 * measurement[1] + 3 * state[1]) \div 10,
      (7 * measurement[2] + 3 * state[2]) \div 10,
      measurement[1] - state[1], measurement[2] - state[2]>>

\* KalmanFilter.update: alpha * measurement + (1 - alpha) * state, alpha = 0.7
KalmanUpdate(state, measurement) ==
    <<(7 * measurement[1] + 3 * state[1]) \div 10,
      (7 * measurement[2] + 3 * state[2]) \div 10,
      state[3], state[4]>>
KalmanUpdateExact(state, measurement) ==
    /\ (7 * measurement[1] + 3 * state[1]) % 10 = 0
    /\ (7 * measurement[2] + 3 * state[2]) % 10 = 0

\* KalmanFilter.predict(dt = 0.033): position += velocity * dt
KalmanPredict(state) ==
    <<state[1] + (state[3] * 33) \div 1000,
      state[2] + (state[4] * 33) \div 1000,
      state[3], state[4]>>
KalmanPredictExact(state) ==
    (state[3] * 33) % 1000 = 0 /\ (state[4] * 33) % 1000 = 0

-----------------------------------------------------------------------------
(* Fusion engine: the steps of update.  An engine value e is the record    *)
(* [tracks, kalman_filters, next_track_id] the steps thread through.       *)

FTrackIds(tracks) == [i \in 1..Len(tracks) |-> tracks[i].track_id]
FTrack(tracks, id) == CHOOSE t \in SeqToSet(tracks) : t.track_id = id

\* mutation of FBestTrack: among equal IoUs the track met last wins
RECURSIVE FBestTrackLastWins(_, _, _, _, _, _)
FBestTrackLastWins(tracks, unmatched_tracks, det_bbox, i, best_iou, best_track) ==
    IF i > Len(unmatched_tracks) THEN best_track
    ELSE LET track_id == unmatched_tracks[i]
             track == FTrack(tracks, track_id)
             iou == FCalculateIoU(det_bbox, track.bbox)
         IN  IF /\ track.bbox # <<>>
                /\ ~IouGreater(best_iou, iou)
                /\ IouGreater(iou, f_iou_threshold)
             THEN FBestTrackLastWins(tracks, unmatched_tracks, det_bbox, i + 1, iou, track_id)
             ELSE FBestTrackLastWins(tracks, unmatched_tracks, det_bbox, i + 1,
                                     best_iou, best_track)

\* the inner loop of _match_detections over unmatched_tracks, from index i,
\* with the best so far; best_track "" is None
RECURSIVE FBestTrack(_, _, _, _, _, _)
FBestTrack(tracks, unmatched_tracks, det_bbox, i, best_iou, best_track) ==
    IF i > Len(unmatched_tracks) THEN best_track
    ELSE LET track_id == unmatched_tracks[i]
             track == FTrack(tracks, track_id)
             iou == FCalculateIoU(det_bbox, track.bbox)
         IN  IF /\ track.bbox # <<>>
                /\ IouGreater(iou, best_iou)
                /\ IouGreater(iou, f_iou_threshold)
             THEN FBestTrack(tracks, unmatched_tracks, det_bbox, i + 1, iou, track_id)
             ELSE FBestTrack(tracks, unmatched_tracks, det_bbox, i + 1, best_iou, best_track)

\* the outer loop of _match_detections over detections, from index i
RECURSIVE FMatchLoop(_, _, _, _)
FMatchLoop(tracks, detections, i, m) ==
    IF i > Len(detections) THEN m
    ELSE LET det == detections[i]
             det_bbox == Get(det, "bbox", DefaultBBox)
             best_track == FBestTrack(tracks, m.unmatched_tracks, det_bbox, 1, <<0, 1>>, "")
         IN  IF best_track # ""
             THEN FMatchLoop(tracks, detections, i + 1,
                    [matched |-> Append(m.matched, <<best_track, det>>),
                     unmatched_dets |-> ListRemove(m.unmatched_dets, det),
                     unmatched_tracks |-> ListRemove(m.unmatched_tracks, best_track)])
             ELSE FMatchLoop(tracks, detections, i + 1, m)

\* SensorFusion._match_detections
FMatchDetections(tracks, detections) ==
    LET m0 == [matched |-> <<>>,
               unmatched_dets |-> detections,
               unmatched_tracks |-> FTrackIds(tracks)]
    IN  IF detections = <<>> \/ tracks = <<>> THEN m0
        ELSE FMatchLoop(tracks, detections, 1, m0)

\* mutation of FNextTrackId: the counter is not advanced
FNextTrackIdStuck(n) == n

\* "self.next_track_id += 1"
FNextTrackId(n) == n + 1

\* mutation of FMatchedClassConfidence: the lower of the two confidences is kept
FMatchedClassConfidenceMin(old, confidence) == Min(old, confidence)

\* mutation of FMatchedClassConfidence: the detection's confidence replaces the track's
FMatchedClassConfidenceLatest(old, confidence) == confidence

\* "max(track.class_confidence, detection.get('confidence', 0.5))"
FMatchedClassConfidence(old, confidence) == Max(old, confidence)

\* mutation of FAddSource: the sensor is appended without the membership test
FAddSourceAlways(sensor_sources, sensor_id) == Append(sensor_sources, sensor_id)

\* "if sensor_id not in track.sensor_sources: track.sensor_sources.append(sensor_id)"
FAddSource(sensor_sources, sensor_id) ==
    IF InList(sensor_id, sensor_sources) THEN sensor_sources
    ELSE Append(sensor_sources, sensor_id)

\* mutation of FusionConfidence: the number of agreeing sensors is not counted
FusionConfidenceOneSource(n_sources, class_confidence) ==
    Min(1000, 300 + (class_confidence * 4) \div 10)

\* mutation of FusionConfidence: the two weights change places
FusionConfidenceWeightsSwapped(n_sources, class_confidence) ==
    Min(1000, n_sources * 400 + (class_confidence * 3) \div 10)

\* the fusion confidence of _update_track:
\* min(1.0, len(sensor_sources) * 0.3 + class_confidence * 0.4)
FusionConfidence(n_sources, class_confidence) ==
    Min(1000, n_sources * 300 + (class_confidence * 4) \div 10)

\* SensorFusion._update_track
FUpdateTrack(e, track_id, detection, sensor_id) ==
    LET track == FTrack(e.tracks, track_id)
        bbox == Get(detection, "bbox", track.bbox)
        has_kf == track_id \in DOMAIN e.kalman_filters
        state == KalmanUpdate(e.kalman_filters[track_id], Centroid(bbox))
        class_confidence ==
            FMatchedClassConfidence(track.class_confidence,
                                    Get(detection, "confidence", DefaultConfidence))
        sensor_sources == FAddSource(track.sensor_sources, sensor_id)
        updated ==
            [track EXCEPT
                !.position = IF has_kf THEN <<state[1], state[2]>> ELSE @,
                !.velocity = IF has_kf THEN <<state[3], state[4]>> ELSE @,
                !.bbox = bbox,
                !.class_confidence = class_confidence,
                !.age_frames = 0,
                !.sensor_sources = sensor_sources,
                !.fusion_confidence = FusionConfidence(Len(sensor_sources), class_confidence)]
    IN  [e EXCEPT
            !.tracks = [i \in 1..Len(e.tracks) |->
                          IF e.tracks[i].track_id = track_id THEN updated ELSE e.tracks[i]],
            !.kalman_filters =
                IF has_kf THEN [e.kalman_filters EXCEPT ![track_id] = state] ELSE @]

\* mutation of FCreateTrack: the fusion confidence starts at the default, not at the
\* detection's confidence
FCreateTrackDefaultFusion(e, detection, sensor_id) ==
    LET track_id == FTrackIdOf(e.next_track_id)
        bbox == Get(detection, "bbox", DefaultBBox)
        c == Centroid(bbox)
        track == [track_id |-> track_id,
                  position |-> c,
                  velocity |-> <<>>,
                  class_name |-> Get(detection, "class", DefaultClass),
                  class_confidence |-> Get(detection, "confidence", DefaultConfidence),
                  bbox |-> bbox,
                  sensor_sources |-> <<sensor_id>>,
                  fusion_confidence |-> DefaultConfidence,
                  age_frames |-> 0]
    IN  [tracks |-> Append(e.tracks, track),
         kalman_filters |->
            [id \in DOMAIN e.kalman_filters \cup {track_id} |->
                IF id = track_id THEN <<c[1], c[2], 0, 0>> ELSE e.kalman_filters[id]],
         next_track_id |-> FNextTrackId(e.next_track_id)]

\* SensorFusion._create_track
FCreateTrack(e, detection, sensor_id) ==
    LET track_id == FTrackIdOf(e.next_track_id)
        bbox == Get(detection, "bbox", DefaultBBox)
        c == Centroid(bbox)
        track == [track_id |-> track_id,
                  position |-> c,
                  velocity |-> <<>>,
                  class_name |-> Get(detection, "class", DefaultClass),
                  class_confidence |-> Get(detection, "confidence", DefaultConfidence),
                  bbox |-> bbox,
                  sensor_sources |-> <<sensor_id>>,
                  fusion_confidence |-> Get(detection, "confidence", DefaultConfidence),
                  age_frames |-> 0]
    IN  [tracks |-> Append(e.tracks, track),
         kalman_filters |->
            [id \in DOMAIN e.kalman_filters \cup {track_id} |->
                IF id = track_id THEN <<c[1], c[2], 0, 0>> ELSE e.kalman_filters[id]],
         next_track_id |-> FNextTrackId(e.next_track_id)]

\* mutation of FCleanupTracks: the estimators of the removed tracks are kept
FCleanupTracksOnly(e) ==
    LET to_remove == { e.tracks[i].track_id : i \in { j \in 1..Len(e.tracks) :
                                                  e.tracks[j].age_frames > f_max_age } }
    IN  [e EXCEPT !.tracks = SelectSeq(e.tracks, LAMBDA t : t.track_id \notin to_remove)]

\* mutation of FCleanupTracks: a track is removed once its age reaches max_age
FCleanupTracksAtMaxAge(e) ==
    LET to_remove == { e.tracks[i].track_id : i \in { j \in 1..Len(e.tracks) :
                                                  e.tracks[j].age_frames >= f_max_age } }
    IN  [e EXCEPT
            !.tracks = SelectSeq(e.tracks, LAMBDA t : t.track_id \notin to_remove),
            !.kalman_filters = [id \in DOMAIN e.kalman_filters \ to_remove |->
                                   e.kalman_filters[id]]]

\* SensorFusion._cleanup_tracks
FCleanupTracks(e) ==
    LET to_remove == { e.tracks[i].track_id : i \in { j \in 1..Len(e.tracks) :
                                                  e.tracks[j].age_frames > f_max_age } }
    IN  [e EXCEPT
            !.tracks = SelectSeq(e.tracks, LAMBDA t : t.track_id \notin to_remove),
            !.kalman_filters = [id \in DOMAIN e.kalman_filters \ to_remove |->
                                   e.kalman_filters[id]]]

\* "for track_id, detection in matched: self._update_track(...)", from index i
RECURSIVE FUpdateMatched(_, _, _, _)
FUpdateMatched(e, matched, i, sensor_id) ==
    IF i > Len(matched) THEN e
    ELSE FUpdateMatched(FUpdateTrack(e, matched[i][1], matched[i][2], sensor_id),
                        matched, i + 1, sensor_id)

\* mutation of FCreateUnmatched: only the first unmatched detection creates a track
FCreateFirstUnmatched(e, unmatched_dets, i, sensor_id) ==
    IF i > Len(unmatched_dets) THEN e
    ELSE FCreateTrack(e, unmatched_dets[i], sensor_id)

\* "for detection in unmatched_dets: self._create_track(...)", from index i
RECURSIVE FCreateUnmatched(_, _, _, _)
FCreateUnmatched(e, unmatched_dets, i, sensor_id) ==
    IF i > Len(unmatched_dets) THEN e
    ELSE FCreateUnmatched(FCreateTrack(e, unmatched_dets[i], sensor_id),
                          unmatched_dets, i + 1, sensor_id)

\* mutation of FAgeUnmatched: every track is aged, matched or not
FAgeEveryTrack(e, unmatched_tracks) ==
    [e EXCEPT !.tracks = [i \in 1..Len(e.tracks) |->
        [e.tracks[i] EXCEPT !.age_frames = @ + 1]]]

\* "for track_id in unmatched_tracks: self.tracks[track_id].age_frames += 1"
FAgeUnmatched(e, unmatched_tracks) ==
    [e EXCEPT !.tracks = [i \in 1..Len(e.tracks) |->
        IF InList(e.tracks[i].track_id, unmatched_tracks)
        THEN [e.tracks[i] EXCEPT !.age_frames = @ + 1]
        ELSE e.tracks[i]]]

\* str.lower() on the class names the model's detections carry
Lower(str) ==
    CASE str = "Weapon" -> "weapon"
      [] str = "PERSON" -> "person"
      [] OTHER -> str

\* mutation of ClassThreat: the table is read with the class name as it is written
ClassThreatAsWritten(class_name) ==
    CASE class_name = "person" -> 2
      [] class_name = "vehicle" -> 3
      [] class_name = "aircraft" -> 5
      [] class_name = "weapon" -> 9
      [] OTHER -> 1

\* threat_classes.get(class_name.lower(), 0.1), in tenths
ClassThreat(class_name) ==
    LET c == Lower(class_name)
    IN  CASE c = "person" -> 2
          [] c = "vehicle" -> 3
          [] c = "aircraft" -> 5
          [] c = "weapon" -> 9
          [] OTHER -> 1

\* the loop of _assess_threat_level: max over tracks of class_threat * fusion_confidence
RECURSIVE MaxThreat(_, _, _)
MaxThreat(tracks, i, max_threat) ==
    IF i > Len(tracks) THEN max_threat
    ELSE MaxThreat(tracks, i + 1,
            Max(max_threat, ClassThreat(tracks[i].class_name) * tracks[i].fusion_confidence))

\* mutation of FAssessThreatLevel: a threat equal to a threshold takes the higher label
FAssessThreatLevelInclusive(tracks) ==
    LET max_threat == MaxThreat(tracks, 1, 0)
    IN  IF max_threat >= 7000 THEN "CRITICAL"
        ELSE IF max_threat >= 5000 THEN "HIGH"
        ELSE IF max_threat >= 3000 THEN "MEDIUM"
        ELSE "LOW"

\* SensorFusion._assess_threat_level; a product is in 1/10000
FAssessThreatLevel(tracks) ==
    LET max_threat == MaxThreat(tracks, 1, 0)
    IN  IF max_threat > 7000 THEN "CRITICAL"
        ELSE IF max_threat > 5000 THEN "HIGH"
        ELSE IF max_threat > 3000 THEN "MEDIUM"
        ELSE "LOW"

\* mutation of FSensorsPut: a list of registrations instead of a dict
FSensorsAppend(sensors, sensor_id, sensor_type) ==
    Append(sensors, <<sensor_id, sensor_type>>)

\* self.sensors[sensor_id] = ...: a dict keeps a key's first position
FSensorsPut(sensors, sensor_id, sensor_type) ==
    IF \E i \in 1..Len(sensors) : sensors[i][1] = sensor_id
    THEN [i \in 1..Len(sensors) |->
            IF sensors[i][1] = sensor_id THEN <<sensor_id, sensor_type>> ELSE sensors[i]]
    ELSE Append(sensors, <<sensor_id, sensor_type>>)

\* list(self.sensors.keys())
FSensorKeys(sensors) == [i \in 1..Len(sensors) |-> sensors[i][1]]

\* the "for track_id, kf in self.kalman_filters.items(): kf.predict()" of _build_output
FPredictAll(kalman_filters) ==
    [id \in DOMAIN kalman_filters |-> KalmanPredict(kalman_filters[id])]

\* whether every value the call computes is representable at the model's resolution
FCallExact(e0, m, e1) ==
    /\ \A i \in 1..Len(m.matched) :
          LET track == FTrack(e0.tracks, m.matched[i][1])
              bbox == Get(m.matched[i][2], "bbox", track.bbox)
          IN  /\ CentroidExact(bbox)
              /\ m.matched[i][1] \in DOMAIN e0.kalman_filters =>
                    KalmanUpdateExact(e0.kalman_filters[m.matched[i][1]], Centroid(bbox))
    /\ \A i \in 1..Len(m.unmatched_dets) :
          CentroidExact(Get(m.unmatched_dets[i], "bbox", DefaultBBox))
    /\ \A id \in DOMAIN e1.kalman_filters : KalmanPredictExact(e1.kalman_filters[id])

\* SensorFusion.update(sensor_data).  m is the result of _match_detections,
\* eC the engine once the matched tracks are updated and the new ones created,
\* e1 the engine after aging and cleanup.
FUpdate(sensor_data) ==
    \E e0 \in {[tracks |-> f_tracks,
                kalman_filters |-> f_kalman_filters,
                next_track_id |-> f_next_track_id]} :
    \E m \in {FMatchDetections(f_tracks, sensor_data.detections)} :
    \E eC \in {FCreateUnmatched(FUpdateMatched(e0, m.matched, 1, sensor_data.sensor_id),
                                m.unmatched_dets, 1, sensor_data.sensor_id)} :
    \E e1 \in {FCleanupTracks(FAgeUnmatched(eC, m.unmatched_tracks))} :
    \E sensors \in {FSensorsPut(f_sensors, sensor_data.sensor_id, sensor_data.sensor_type)} :
        /\ FCallExact(e0, m, e1)
        /\ f_sensors' = sensors
        /\ f_tracks' = e1.tracks
        /\ f_kalman_filters' = FPredictAll(e1.kalman_filters)
        /\ f_next_track_id' = e1.next_track_id
        /\ f_out' = [op |-> "update",
                     detections |-> e1.tracks,
                     active_sensors |-> FSensorKeys(sensors),
                     degraded_sensors |-> <<>>,
                     threat_level |-> FAssessThreatLevel(e1.tracks)]
        /\ f_hist' = [issued |-> f_hist.issued \o
                                  [k \in 1..(Len(eC.tracks) - Len(f_tracks)) |->
                                      eC.tracks[Len(f_tracks) + k].track_id],
                      reading |-> sensor_data,
                      matched |-> m.matched]

\* the tracks SensorFusion.update(sensor_data) leaves when called on the engine e0
FTracksAfterUpdate(e0, sensor_data) ==
    LET m == FMatchDetections(e0.tracks, sensor_data.detections)
        eC == FCreateUnmatched(FUpdateMatched(e0, m.matched, 1, sensor_data.sensor_id),
                               m.unmatched_dets, 1, sensor_data.sensor_id)
    IN  FCleanupTracks(FAgeUnmatched(eC, m.unmatched_tracks)).tracks

\* a 'bbox' value that is not four numbers: <<>> is None or [], <<a, b, c>> is [a, b, c]
MalformedBBox(det) == "bbox" \in DOMAIN det /\ Len(det.bbox) # 4
HasMalformedBBox(detections) == \E i \in 1..Len(detections) : MalformedBBox(detections[i])
FirstMalformedBBox(detections) ==
    CHOOSE i \in 1..Len(detections) :
        MalformedBBox(detections[i]) /\ \A j \in 1..(i - 1) : ~MalformedBBox(detections[j])

\* SensorFusion.update(sensor_data) when a detection's bbox is not four numbers.  The
\* sensor is recorded first.  _calculate_iou unpacks the box ("x1, y1, w1, h1 = box1")
\* and raises as soon as the detection is compared with a track: nothing else has
\* changed then.  If no track is left to compare it with, matching completes, the
\* matched tracks are updated, the detections before it get their tracks, and
\* _create_track raises on the box ("bbox[0] + bbox[2]/2") after it has advanced
\* next_track_id.  Aging, cleanup and _build_output are not reached.
FUpdateRaises(sensor_data) ==
    \E e0 \in {[tracks |-> f_tracks,
                kalman_filters |-> f_kalman_filters,
                next_track_id |-> f_next_track_id]} :
    \E b \in {FirstMalformedBBox(sensor_data.detections)} :
    \E prefix \in {SubSeq(sensor_data.detections, 1, b - 1)} :
    \E m0 \in {[matched |-> <<>>,
                unmatched_dets |-> prefix,
                unmatched_tracks |-> FTrackIds(f_tracks)]} :
    \E m \in {IF f_tracks = <<>> THEN m0 ELSE FMatchLoop(f_tracks, prefix, 1, m0)} :
    \E eC \in {FCreateUnmatched(FUpdateMatched(e0, m.matched, 1, sensor_data.sensor_id),
                                m.unmatched_dets, 1, sensor_data.sensor_id)} :
        /\ HasMalformedBBox(sensor_data.detections)
        /\ f_sensors' = FSensorsPut(f_sensors, sensor_data.sensor_id, sensor_data.sensor_type)
        /\ f_out' = [op |-> "update", raised |-> TRUE]
        /\ IF m.unmatched_tracks # <<>>
           THEN /\ UNCHANGED <<f_tracks, f_kalman_filters, f_next_track_id>>
                /\ f_hist' = [f_hist EXCEPT !.reading = sensor_data, !.matched = <<>>]
           ELSE /\ FCallExact(e0, m, eC)
                /\ f_tracks' = eC.tracks
                /\ f_kalman_filters' = eC.kalman_filters
                /\ f_next_track_id' = FNextTrackId(eC.next_track_id)
                /\ f_hist' = [issued |-> f_hist.issued \o
                                          [k \in 1..(Len(eC.tracks) - Len(f_tracks)) |->
                                              eC.tracks[Len(f_tracks) + k].track_id],
                              reading |-> sensor_data,
                              matched |-> m.matched]

\* SensorFusion.register_sensor(sensor_id, sensor_type)
FRegisterSensor(sensor_id, sensor_type) ==
    /\ f_sensors' = FSensorsPut(f_sensors, sensor_id, sensor_type)
    /\ f_out' = [op |-> "register_sensor", sensor_id |-> sensor_id, sensor_type |-> sensor_type]
    /\ UNCHANGED <<f_tracks, f_kalman_filters, f_next_track_id, f_hist, f_calls>>

\* mutation of FGetTracks: the tracks are handed over and forgotten
FGetTracksAndClear ==
    /\ f_out' = [op |-> "get_tracks", tracks |-> f_tracks]
    /\ f_tracks' = <<>>
    /\ f_kalman_filters' = <<>>
    /\ UNCHANGED <<f_sensors, f_next_track_id, f_hist, f_calls>>

\* SensorFusion.get_tracks()
FGetTracks ==
    /\ f_out' = [op |-> "get_tracks", tracks |-> f_tracks]
    /\ UNCHANGED <<f_sensors, f_tracks, f_kalman_filters, f_next_track_id, f_hist, f_calls>>

\* mutation of FGetTrack: an id stays found once it was allocated
FGetTrackEverIssued(track_id) ==
    /\ f_out' = IF InList(track_id, f_hist.issued)
                THEN [op |-> "get_track", track_id |-> track_id, found |-> TRUE,
                      track |-> [track_id |-> track_id]]
                ELSE [op |-> "get_track", track_id |-> track_id, found |-> FALSE]
    /\ UNCHANGED <<f_sensors, f_tracks, f_kalman_filters, f_next_track_id, f_hist, f_calls>>

\* SensorFusion.get_track(track_id): self.tracks.get(track_id); found is FALSE for None
FGetTrack(track_id) ==
    /\ f_out' = IF InList(track_id, FTrackIds(f_tracks))
                THEN [op |-> "get_track", track_id |-> track_id, found |-> TRUE,
                      track |-> FTrack(f_tracks, track_id)]
                ELSE [op |-> "get_track", track_id |-> track_id, found |-> FALSE]
    /\ UNCHANGED <<f_sensors, f_tracks, f_kalman_filters, f_next_track_id, f_hist, f_calls>>

-----------------------------------------------------------------------------
(* Tracker: parameters (ObjectTracker.__init__) and the literals of TrackedObject *)

t_iou_threshold == <<1, 4>>     \* self.iou_threshold = 0.25, as a quotient
t_max_misses == 15              \* self.max_misses = 15
t_min_hits_to_confirm == 3      \* self.min_hits_to_confirm = 3

ConfirmHitsLate == 3 + 1         \* mutation of ConfirmHits: one hit later
ConfirmHits == 3                \* "if self.hits >= 3" in TrackedObject.update
LostMisses == 10                \* "if self.misses > 10" in TrackedObject.mark_missed

\* f"OBJ-{self.next_id:05d}"
TTrackIdOf(n) == "OBJ-" \o ZeroPad(ToString(n), 5)

\* ObjectTracker._iou: 0 when a box is None or empty
TIoU(box1, box2) ==
    IF box1 = <<>> \/ box2 = <<>> THEN <<0, 1>>
    ELSE LET x1 == box1[1]  y1 == box1[2]  w1 == box1[3]  h1 == box1[4]
             x2 == box2[1]  y2 == box2[2]  w2 == box2[3]  h2 == box2[4]
             xi1 == Max(x1, x2)
             yi1 == Max(y1, y2)
             xi2 == Min(x1 + w1, x2 + w2)
             yi2 == Min(y1 + h1, y2 + h2)
             intersection == Max(0, xi2 - xi1) * Max(0, yi2 - yi1)
             union == w1 * h1 + w2 * h2 - intersection
         IN  IF union > 0 THEN <<intersection, union>> ELSE <<0, 1>>

\* a call of _iou
TIoUCall(box1, box2) ==
    IF box1 # <<>> /\ box2 # <<>> /\ (Len(box1) # 4 \/ Len(box2) # 4)
    THEN [op |-> "_iou", box1 |-> box1, box2 |-> box2, raised |-> TRUE]
    ELSE [op |-> "_iou", box1 |-> box1, box2 |-> box2, raised |-> FALSE,
          result |-> TIoU(box1, box2)]

\* a cost 1 - iou as a quotient; <<1, 0>> is float('inf')
CostOf(iou) == <<iou[2] - iou[1], iou[2]>>
Infinity == <<1, 0>>
CostLess(c1, c2) ==
    IF c1[2] = 0 THEN FALSE
    ELSE IF c2[2] = 0 THEN TRUE
    ELSE FracLess(c1[1], c1[2], c2[1], c2[2])

-----------------------------------------------------------------------------
(* TrackedObject *)

\* TrackedObject.predict(dt = 0.033)
TPredict(t) ==
    IF t.bbox # <<>>
    THEN LET c == Centroid(t.bbox)
             new_cx == c[1] + (t.velocity[1] * 33) \div 1000
             new_cy == c[2] + (t.velocity[2] * 33) \div 1000
         IN  [t EXCEPT !.predicted_bbox =
                <<new_cx - t.bbox[3] \div 2, new_cy - t.bbox[4] \div 2, t.bbox[3], t.bbox[4]>>]
    ELSE t
TPredictExact(t) ==
    t.bbox # <<>> =>
        /\ CentroidExact(t.bbox)
        /\ (t.velocity[1] * 33) % 1000 = 0
        /\ (t.velocity[2] * 33) % 1000 = 0

\* the smoothed velocity of TrackedObject.update:
\* alpha * (new_c - old_c) * 30 + (1 - alpha) * velocity, alpha = 0.3
SmoothVelocity(velocity, old_c, new_c) ==
    <<9 * (new_c[1] - old_c[1]) + (7 * velocity[1]) \div 10,
      9 * (new_c[2] - old_c[2]) + (7 * velocity[2]) \div 10>>
SmoothVelocityExact(velocity) ==
    (7 * velocity[1]) % 10 = 0 /\ (7 * velocity[2]) % 10 = 0

\* mutation of TObjectUpdate: the track keeps the class it was created with
TObjectUpdateKeepsClass(t, detection) ==
    LET new_bbox == Get(detection, "bbox", t.bbox)
        velocity == IF t.bbox # <<>> /\ new_bbox # <<>>
                    THEN SmoothVelocity(t.velocity, Centroid(t.bbox), Centroid(new_bbox))
                    ELSE t.velocity
        hits == t.hits + 1
    IN  [t EXCEPT
            !.velocity = velocity,
            !.bbox = new_bbox,
            !.confidence = Get(detection, "confidence", t.confidence),
            !.hits = hits,
            !.misses = 0,
            !.age = @ + 1,
            !.is_confirmed = IF hits >= ConfirmHits THEN TRUE ELSE @]

\* TrackedObject.update(detection)
TObjectUpdate(t, detection) ==
    LET new_bbox == Get(detection, "bbox", t.bbox)
        velocity == IF t.bbox # <<>> /\ new_bbox # <<>>
                    THEN SmoothVelocity(t.velocity, Centroid(t.bbox), Centroid(new_bbox))
                    ELSE t.velocity
        hits == t.hits + 1
    IN  [t EXCEPT
            !.velocity = velocity,
            !.bbox = new_bbox,
            !.confidence = Get(detection, "confidence", t.confidence),
            !.class_name = Get(detection, "class", t.class_name),
            !.hits = hits,
            !.misses = 0,
            !.age = @ + 1,
            !.is_confirmed = IF hits >= ConfirmHits THEN TRUE ELSE @]
TObjectUpdateExact(t, detection) ==
    LET new_bbox == Get(detection, "bbox", t.bbox)
    IN  (t.bbox # <<>> /\ new_bbox # <<>>) =>
            /\ CentroidExact(t.bbox)
            /\ CentroidExact(new_bbox)
            /\ SmoothVelocityExact(t.velocity)

\* mutation of TMarkMissed: a missed frame does not count for the age
TMarkMissedNoAge(t) ==
    LET misses == t.misses + 1
    IN  [t EXCEPT
            !.misses = misses,
            !.bbox = IF t.predicted_bbox # <<>> THEN t.predicted_bbox ELSE @,
            !.is_lost = IF misses > LostMisses THEN TRUE ELSE @]

\* TrackedObject.mark_missed()
TMarkMissed(t) ==
    LET misses == t.misses + 1
    IN  [t EXCEPT
            !.misses = misses,
            !.age = @ + 1,
            !.bbox = IF t.predicted_bbox # <<>> THEN t.predicted_bbox ELSE @,
            !.is_lost = IF misses > LostMisses THEN TRUE ELSE @]

-----------------------------------------------------------------------------
(* ObjectTracker: the steps of update *)

TTrackIds(tracks) == [i \in 1..Len(tracks) |-> tracks[i].track_id]

\* the cost matrix of _match: a row per track, a column per detection
TCostMatrix(tracks, detections) ==
    [i \in 1..Len(tracks) |->
        LET track_bbox == IF tracks[i].predicted_bbox # <<>>
                          THEN tracks[i].predicted_bbox ELSE tracks[i].bbox
        IN  [j \in 1..Len(detections) |->
                CostOf(TIoU(track_bbox, Get(detections[j], "bbox", DefaultBBox)))]]

\* the search for the minimum cost: rows i in track order, columns in the order
\* of unmatched_dets (position jj), strict "<"; s is [min_cost, min_i, min_j]
RECURSIVE TFindMin(_, _, _, _, _, _, _)
TFindMin(cost_matrix, track_ids, unmatched_tracks, unmatched_dets, i, jj, s) ==
    IF i > Len(track_ids) THEN s
    ELSE IF ~InList(track_ids[i], unmatched_tracks) \/ jj > Len(unmatched_dets)
    THEN TFindMin(cost_matrix, track_ids, unmatched_tracks, unmatched_dets, i + 1, 1, s)
    ELSE LET j == unmatched_dets[jj]
         IN  IF CostLess(cost_matrix[i][j], s.min_cost)
             THEN TFindMin(cost_matrix, track_ids, unmatched_tracks, unmatched_dets, i, jj + 1,
                           [min_cost |-> cost_matrix[i][j], min_i |-> i, min_j |-> j])
             ELSE TFindMin(cost_matrix, track_ids, unmatched_tracks, unmatched_dets, i, jj + 1, s)

\* mutation of TGreedy: a cost equal to 1 - iou_threshold is not accepted
RECURSIVE TGreedyBelowThreshold(_, _, _, _)
TGreedyBelowThreshold(cost_matrix, track_ids, detections, m) ==
    IF cost_matrix = <<>> \/ m.unmatched_dets = <<>> \/ m.unmatched_tracks = <<>> THEN m
    ELSE LET s == TFindMin(cost_matrix, track_ids, m.unmatched_tracks, m.unmatched_dets, 1, 1,
                           [min_cost |-> Infinity, min_i |-> 0, min_j |-> 0])
         IN  IF ~CostLess(s.min_cost, CostOf(t_iou_threshold)) THEN m
             ELSE TGreedyBelowThreshold(cost_matrix, track_ids, detections,
                    [matched |-> Append(m.matched, <<track_ids[s.min_i], detections[s.min_j]>>),
                     unmatched_dets |-> ListRemove(m.unmatched_dets, s.min_j),
                     unmatched_tracks |-> ListRemove(m.unmatched_tracks, track_ids[s.min_i])])

\* mutation of TGreedyIteration: the matched detection stays in unmatched_dets
TGreedyIterationKeepsDetection(cost_matrix, track_ids, detections, m) ==
    LET s == TFindMin(cost_matrix, track_ids, m.unmatched_tracks, m.unmatched_dets, 1, 1,
                      [min_cost |-> Infinity, min_i |-> 0, min_j |-> 0])
    IN  IF CostLess(CostOf(t_iou_threshold), s.min_cost) THEN [stop |-> TRUE, m |-> m]
        ELSE [stop |-> FALSE,
              m |-> [matched |-> Append(m.matched, <<track_ids[s.min_i], detections[s.min_j]>>),
                     unmatched_dets |-> m.unmatched_dets,
                     unmatched_tracks |-> ListRemove(m.unmatched_tracks, track_ids[s.min_i])]]

\* one pass through the body of the "while" of _match: stop is the "break"
TGreedyIteration(cost_matrix, track_ids, detections, m) ==
    LET s == TFindMin(cost_matrix, track_ids, m.unmatched_tracks, m.unmatched_dets, 1, 1,
                      [min_cost |-> Infinity, min_i |-> 0, min_j |-> 0])
    IN  IF CostLess(CostOf(t_iou_threshold), s.min_cost) THEN [stop |-> TRUE, m |-> m]
        ELSE [stop |-> FALSE,
              m |-> [matched |-> Append(m.matched, <<track_ids[s.min_i], detections[s.min_j]>>),
                     unmatched_dets |-> ListRemove(m.unmatched_dets, s.min_j),
                     unmatched_tracks |-> ListRemove(m.unmatched_tracks, track_ids[s.min_i])]]

\* the greedy loop of _match; m is [matched, unmatched_dets, unmatched_tracks],
\* with detections by index
RECURSIVE TGreedy(_, _, _, _)
TGreedy(cost_matrix, track_ids, detections, m) ==
    IF cost_matrix = <<>> \/ m.unmatched_dets = <<>> \/ m.unmatched_tracks = <<>> THEN m
    ELSE LET r == TGreedyIteration(cost_matrix, track_ids, detections, m)
         IN  IF r.stop THEN m
             ELSE TGreedy(cost_matrix, track_ids, detections, r.m)

\* ObjectTracker._match
TMatch(tracks, detections) ==
    LET m0 == [matched |-> <<>>,
               unmatched_dets |-> [j \in 1..Len(detections) |-> j],
               unmatched_tracks |-> TTrackIds(tracks)]
        m == IF detections = <<>> \/ tracks = <<>> THEN m0
             ELSE TGreedy(TCostMatrix(tracks, detections), TTrackIds(tracks), detections, m0)
    IN  [matched |-> m.matched,
         unmatched_dets |-> [k \in 1..Len(m.unmatched_dets) |-> detections[m.unmatched_dets[k]]],
         unmatched_tracks |-> m.unmatched_tracks]

\* "for track_id, det in matched: self.tracks[track_id].update(det)", from index i
RECURSIVE TUpdateMatched(_, _, _)
TUpdateMatched(tracks, matched, i) ==
    IF i > Len(matched) THEN tracks
    ELSE TUpdateMatched(
            [k \in 1..Len(tracks) |->
                IF tracks[k].track_id = matched[i][1]
                THEN TObjectUpdate(tracks[k], matched[i][2]) ELSE tracks[k]],
            matched, i + 1)

\* mutation of TNextId: the counter is not advanced
TNextIdStuck(n) == n

\* "self.next_id += 1"
TNextId(n) == n + 1

\* ObjectTracker._create_track; e is [tracks, next_id]
TCreateTrack(e, detection) ==
    LET track_id == TTrackIdOf(e.next_id)
    IN  [tracks |-> Append(e.tracks,
                      [track_id |-> track_id,
                       class_name |-> Get(detection, "class", DefaultClass),
                       confidence |-> Get(detection, "confidence", DefaultConfidence),
                       bbox |-> Get(detection, "bbox", DefaultBBox),
                       velocity |-> <<0, 0>>,
                       acceleration |-> <<0, 0>>,
                       hits |-> 1,
                       misses |-> 0,
                       age |-> 0,
                       is_confirmed |-> FALSE,
                       is_lost |-> FALSE,
                       predicted_bbox |-> <<>>]),
         next_id |-> TNextId(e.next_id)]

\* "for det in unmatched_dets: self._create_track(det)", from index i
RECURSIVE TCreateUnmatched(_, _, _)
TCreateUnmatched(e, unmatched_dets, i) ==
    IF i > Len(unmatched_dets) THEN e
    ELSE TCreateUnmatched(TCreateTrack(e, unmatched_dets[i]), unmatched_dets, i + 1)

\* "for track_id in unmatched_tracks: self.tracks[track_id].mark_missed()"
TMarkUnmatched(tracks, unmatched_tracks) ==
    [k \in 1..Len(tracks) |->
        IF InList(tracks[k].track_id, unmatched_tracks)
        THEN TMarkMissed(tracks[k]) ELSE tracks[k]]

\* mutation of TCleanup: lost tracks stay in the dict
TCleanupKeepsLost(tracks) == tracks

\* mutation of TCleanup: only confirmed tracks are removed when lost
TCleanupConfirmedOnly(tracks) == SelectSeq(tracks, LAMBDA t : ~(t.is_lost /\ t.is_confirmed))

\* ObjectTracker._cleanup
TCleanup(tracks) == SelectSeq(tracks, LAMBDA t : ~t.is_lost)

\* mutation of TUpdateResult: the filter is left out
TUpdateResultAll(tracks) == tracks

\* the return value of ObjectTracker.update
TUpdateResult(tracks) == SelectSeq(tracks, LAMBDA t : t.is_confirmed /\ ~t.is_lost)

\* ObjectTracker.get_confirmed_tracks
TGetConfirmedTracks(tracks) == SelectSeq(tracks, LAMBDA t : t.is_confirmed /\ ~t.is_lost)

\* ObjectTracker.get_all_tracks
TGetAllTracks(tracks) == tracks

\* whether every value the call computes is representable at the model's resolution
TCallExact(tracks, m) ==
    /\ \A k \in 1..Len(tracks) : TPredictExact(tracks[k])
    /\ \A i \in 1..Len(m.matched) :
          \A k \in 1..Len(tracks) :
             tracks[k].track_id = m.matched[i][1] =>
                TObjectUpdateExact(tracks[k], m.matched[i][2])

\* ObjectTracker.update(detections).  p is the tracks after predict, m the result of
\* _match, eC the tracker once matched tracks are updated and new ones created,
\* marked the tracks after mark_missed and before _cleanup.
TUpdate(detections) ==
    \E p \in {[k \in 1..Len(t_tracks) |-> TPredict(t_tracks[k])]} :
    \E m \in {TMatch(p, detections)} :
    \E eC \in {TCreateUnmatched([tracks |-> TUpdateMatched(p, m.matched, 1),
                                 next_id |-> t_next_id], m.unmatched_dets, 1)} :
    \E marked \in {TMarkUnmatched(eC.tracks, m.unmatched_tracks)} :
    \E tracks \in {TCleanup(marked)} :
        /\ TCallExact(t_tracks, m)
        /\ t_tracks' = tracks
        /\ t_next_id' = eC.next_id
        /\ t_out' = [op |-> "update", result |-> TUpdateResult(tracks)]
        /\ t_hist' = [t_hist EXCEPT
                        !.issued = @ \o [k \in 1..(Len(eC.tracks) - Len(t_tracks)) |->
                                            eC.tracks[Len(t_tracks) + k].track_id],
                        !.epoch = @ \o [k \in 1..(Len(eC.tracks) - Len(t_tracks)) |->
                                            eC.tracks[Len(t_tracks) + k].track_id],
                        !.detections = detections,
                        !.matched = m.matched,
                        !.removed = SelectSeq(marked, LAMBDA t : t.is_lost)]

\* the tracks ObjectTracker.update(detections) leaves when called with these tracks
TTracksAfterUpdate(tracks, next_id, detections) ==
    LET pr == [k \in 1..Len(tracks) |-> TPredict(tracks[k])]
        m == TMatch(pr, detections)
        eC == TCreateUnmatched([tracks |-> TUpdateMatched(pr, m.matched, 1),
                                next_id |-> next_id], m.unmatched_dets, 1)
    IN  TCleanup(TMarkUnmatched(eC.tracks, m.unmatched_tracks))

\* mutation of TReset: the id counter restarts, the tracks stay
TResetKeepsTracks ==
    /\ t_tracks' = t_tracks
    /\ t_next_id' = 1
    /\ t_out' = [op |-> "reset"]
    /\ t_hist' = [t_hist EXCEPT !.epoch = <<>>, !.resets = @ + 1,
                                !.detections = <<>>, !.matched = <<>>, !.removed = <<>>]

\* mutation of TReset: the tracks are cleared, the id counter keeps counting
TResetKeepsNextId ==
    /\ t_tracks' = <<>>
    /\ t_next_id' = t_next_id
    /\ t_out' = [op |-> "reset"]
    /\ t_hist' = [t_hist EXCEPT !.epoch = <<>>, !.resets = @ + 1,
                                !.detections = <<>>, !.matched = <<>>, !.removed = <<>>]

\* ObjectTracker.reset()
TReset ==
    /\ t_tracks' = <<>>
    /\ t_next_id' = 1
    /\ t_out' = [op |-> "reset"]
    /\ t_hist' = [t_hist EXCEPT !.epoch = <<>>, !.resets = @ + 1,
                                !.detections = <<>>, !.matched = <<>>, !.removed = <<>>]

\* ObjectTracker.get_all_tracks()
TGetAll ==
    /\ t_out' = [op |-> "get_all_tracks", result |-> TGetAllTracks(t_tracks)]
    /\ UNCHANGED <<t_tracks, t_next_id, t_hist, t_calls>>

\* ObjectTracker.get_confirmed_tracks()
TGetConfirmed ==
    /\ t_out' = [op |-> "get_confirmed_tracks", result |-> TGetConfirmedTracks(t_tracks)]
    /\ UNCHANGED <<t_tracks, t_next_id, t_hist, t_calls>>

\* ObjectTracker.get_track(track_id): self.tracks.get(track_id); found is FALSE for None
TGetTrack(track_id) ==
    /\ t_out' = IF InList(track_id, TTrackIds(t_tracks))
                THEN [op |-> "get_track", track_id |-> track_id, found |-> TRUE,
                      track |-> CHOOSE t \in SeqToSet(t_tracks) : t.track_id = track_id]
                ELSE [op |-> "get_track", track_id |-> track_id, found |-> FALSE]
    /\ UNCHANGED <<t_tracks, t_next_id, t_hist, t_calls>>

-----------------------------------------------------------------------------
(* Fusion engine: bounds and inputs *)

MaxFCalls == 3      \* update calls in a run of FusionSpec
MaxFIds == 3        \* track ids one engine allocates in a run

BoxA == <<1000, 1000, 2000, 2000>>      \* [10, 10, 20, 20]
BoxB == <<2000, 1000, 2000, 2000>>      \* [20, 10, 20, 20]: IoU 1/3 with BoxA
BoxC == <<9000, 9000, 2000, 2000>>      \* [90, 90, 20, 20]: apart from both

SensorIds == {"cam1", "radar1"}
SensorTypeOf(sensor_id) == IF sensor_id = "cam1" THEN "camera_rgb" ELSE "radar"

\* the detections readings carry: two overlapping boxes, and a detection without a
\* bbox (placed at the default box, apart from both) whose confidence is above 1
FDetections ==
    { [class |-> "person", confidence |-> 900, bbox |-> BoxA],
      [class |-> "person", confidence |-> 400, bbox |-> BoxB],
      [class |-> "Weapon", confidence |-> 1500] }

\* the lists of no, one or two elements of S
UpToTwo(S) == {<<>>} \cup { <<a>> : a \in S } \cup { <<a, b>> : a \in S, b \in S }

FReadings ==
    { [sensor_id |-> s, sensor_type |-> SensorTypeOf(s), detections |-> d] :
        s \in SensorIds, d \in UpToTwo(FDetections) }

\* the detections of the aging runs: one box each, nothing else varied
FAgingDetections ==
    { [class |-> "person", confidence |-> 900, bbox |-> BoxA],
      [class |-> "aircraft", confidence |-> 600, bbox |-> BoxC] }

FAgingReadings ==
    { [sensor_id |-> "cam1", sensor_type |-> SensorTypeOf("cam1"), detections |-> d] :
        d \in {<<>>} \cup { <<a>> : a \in FAgingDetections } }

FLookupIds == { FTrackIdOf(n) : n \in {1, MaxFIds + 1} }

\* the readings of the two-sensor scenario: one box seen with a confidence from the
\* ends and the inside of [0, 1], and a second object elsewhere
FScenarioDetections ==
    { [class |-> "person", confidence |-> c, bbox |-> BoxA] : c \in {0, 400, 900, 1000} }
        \cup { [class |-> "aircraft", confidence |-> 600, bbox |-> BoxC] }

FScenarioReadings ==
    { [sensor_id |-> s, sensor_type |-> SensorTypeOf(s), detections |-> d] :
        s \in SensorIds, d \in {<<>>} \cup { <<a>> : a \in FScenarioDetections } }

-----------------------------------------------------------------------------
(* Tracker: bounds and inputs *)

MaxTCalls == 4      \* update calls between two resets in a run of TrackerSpec
MaxTIds == 3        \* track ids the tracker allocates between two resets
MaxResets == 1      \* reset calls in a run
MaxTLostCalls == 14 \* update calls in a run of TrackerLostSpec
MaxTLostHits == 3   \* hits of one track in a run of TrackerLostSpec
MaxTLostIds == 2    \* track ids the tracker allocates in a run of TrackerLostSpec

TBoxA == <<10000, 10000, 20000, 20000>>     \* [100, 100, 200, 200]
TBoxB == <<20000, 10000, 20000, 20000>>     \* [200, 100, 200, 200]: IoU 1/3 with TBoxA
TBoxC == <<50000, 50000, 20000, 20000>>     \* [500, 500, 200, 200]: apart from both

TDetections ==
    { [class |-> "person", confidence |-> 900, bbox |-> TBoxA],
      [class |-> "vehicle", confidence |-> 600, bbox |-> TBoxB] }

TDetectionLists == UpToTwo(TDetections)

\* the inputs of the runs that follow one object until it is lost
TLostDetectionLists ==
    { <<>>,
      <<[class |-> "person", confidence |-> 900, bbox |-> TBoxA]>>,
      <<[class |-> "person", confidence |-> 900, bbox |-> TBoxB]>> }

TLookupIds == { TTrackIdOf(n) : n \in {1, MaxTIds + 1} }

MaxTFeeds == 4      \* update calls that repeat the detection in a scenario run
MaxTMisses == 12    \* update calls with an empty list that follow them

\* the boxes of the scenario runs, [x, y, w, h] with w, h > 0, in 1/100 pixel
TScenarioBoxes ==
    { <<x, y, w, h>> : x \in {0, 10000}, y \in {0, 30000},
                       w \in {200, 4000, 20000}, h \in {200, 4000, 20000} }

\* one detection of the box, with or without its class and confidence
TScenarioDetections ==
    { [class |-> "person", confidence |-> 900, bbox |-> b] : b \in TScenarioBoxes }
        \cup { [bbox |-> b] : b \in TScenarioBoxes }

-----------------------------------------------------------------------------
(* Both engines: detections whose box is missing or is not four numbers *)

MaxBoxCalls == 2    \* update calls on each engine in a run of BoxSpec

BoxW == <<1000, 1000, 9000, 9000>>  \* [10, 10, 90, 90]: IoU 0.81 with the default box

\* a detection with a box, one without the key, one whose box is None or [], and one
\* whose box has three numbers
BoxDetections ==
    { [class |-> "person", confidence |-> 900, bbox |-> BoxW],
      [class |-> "person", confidence |-> 900],
      [class |-> "person", confidence |-> 900, bbox |-> <<>>],
      [class |-> "person", confidence |-> 900, bbox |-> <<1000, 1000, 2000>>] }

FBoxReadings ==
    { [sensor_id |-> "cam1", sensor_type |-> SensorTypeOf("cam1"), detections |-> d] :
        d \in {<<>>} \cup { <<a>> : a \in BoxDetections } }

\* the tracker is fed boxes that are lists of four numbers or empty
TBoxDetectionLists ==
    {<<>>} \cup { <<a>> : a \in { d \in BoxDetections : Get(d, "bbox", <<>>) = <<>>
                                                      \/ Len(d.bbox) = 4 } }

-----------------------------------------------------------------------------
(* Both engines: detections without a confidence or a class *)

MaxFieldCalls == 2  \* update calls on each engine in a run of FieldSpec

\* one box, seen with and without its class and its confidence
FieldDetections(bbox) ==
    { [class |-> "person", confidence |-> 900, bbox |-> bbox],
      [class |-> "person", bbox |-> bbox],
      [confidence |-> 900, bbox |-> bbox],
      [bbox |-> bbox] }

FFieldReadings ==
    { [sensor_id |-> "cam1", sensor_type |-> SensorTypeOf("cam1"), detections |-> d] :
        d \in {<<>>} \cup { <<a>> : a \in FieldDetections(BoxA) } }

TFieldDetectionLists == {<<>>} \cup { <<a>> : a \in FieldDetections(TBoxA) }

-----------------------------------------------------------------------------
(* Both engines: lookups by id *)

MaxLookupIds == 1   \* track ids each engine allocates in a run of LookupSpec
MaxLookupHits == 1  \* hits a tracker track collects in a run of LookupSpec

\* one object, seen or not seen
FLookupReadings ==
    { [sensor_id |-> "cam1", sensor_type |-> SensorTypeOf("cam1"), detections |-> d] :
        d \in {<<>>, <<[class |-> "person", confidence |-> 900, bbox |-> BoxA]>>} }

TLookupDetectionLists == {<<>>, <<[class |-> "person", confidence |-> 900, bbox |-> TBoxA]>>}

\* the arguments of get_track: the first id a run allocates, one it never allocates,
\* and a string that is no id
FLookupArgs == {FTrackIdOf(1), FTrackIdOf(MaxLookupIds + 1), "nope"}
TLookupArgs == {TTrackIdOf(1), TTrackIdOf(MaxLookupIds + 1), "nope"}

-----------------------------------------------------------------------------
(* Fusion engine: scenes of several classes *)

MaxThreatFeeds == 2     \* readings with a detection in a run of ThreatSpec

BoxD == <<5000, 5000, 2000, 2000>>      \* [50, 50, 20, 20]: apart from BoxA and BoxC

\* objects of every row of the threat table, the weapon also as a detector that
\* capitalises its class names reports it (without a box: at the default box)
ThreatDetections ==
    { [class |-> "person", confidence |-> 900, bbox |-> BoxA],
      [class |-> "drone", confidence |-> 900, bbox |-> BoxA],
      [class |-> "aircraft", confidence |-> 900, bbox |-> BoxC],
      [class |-> "weapon", confidence |-> 600, bbox |-> BoxD],
      [class |-> "Weapon", confidence |-> 900] }

ThreatReading(detections) ==
    [sensor_id |-> "cam1", sensor_type |-> SensorTypeOf("cam1"), detections |-> detections]

-----------------------------------------------------------------------------
(* Geometry: the boxes of a grid *)

GridMax == 2    \* the largest coordinate and the largest side of a box of the grid

\* the boxes [x, y, w, h] of the grid, the degenerate ones (w = 0 or h = 0) included
GridBoxes == { <<x, y, w, h>> : x \in 0..GridMax, y \in 0..GridMax,
                                w \in 0..GridMax, h \in 0..GridMax }

\* a box, or the absent box (None or [])
IoUInputs == GridBoxes \cup {<<>>}

-----------------------------------------------------------------------------
(* Fusion engine: association among neighbouring boxes *)

MaxAssocCalls == 3      \* update calls in a run of AssocSpec

BoxE == <<3000, 1000, 2000, 2000>>      \* [30, 10, 20, 20]: touches BoxA, IoU 1/3 with BoxB

\* BoxB lies between BoxA and BoxE and overlaps both by a third
AssocDetections ==
    { [class |-> "person", confidence |-> 900, bbox |-> b] : b \in {BoxA, BoxB, BoxE} }

AssocReadings ==
    { [sensor_id |-> "cam1", sensor_type |-> SensorTypeOf("cam1"), detections |-> d] :
        d \in UpToTwo(AssocDetections) }

-----------------------------------------------------------------------------
(* Specifications of the fusion engine *)

FInit ==
    /\ f_sensors = <<>>
    /\ f_tracks = <<>>
    /\ f_kalman_filters = <<>>
    /\ f_next_track_id = 1
    /\ f_out = [op |-> "init"]
    /\ f_hist = [issued |-> <<>>, reading |-> <<>>, matched |-> <<>>]
    /\ f_calls = 0

TInit ==
    /\ t_tracks = <<>>
    /\ t_next_id = 1
    /\ t_out = [op |-> "init"]
    /\ t_hist = [issued |-> <<>>, epoch |-> <<>>, resets |-> 0,
                 detections |-> <<>>, matched |-> <<>>, removed |-> <<>>]
    /\ t_calls = 0

\* no request received yet
HInit == h_requests = <<>>

\* ObjectTracker.__init__ of the second tracker
NInit ==
    /\ n_tracks = <<>>
    /\ n_next_id = 1
    /\ n_out = [op |-> "init"]

Init == FInit /\ TInit /\ HInit /\ NInit

\* an update call of a bounded run
FUpdateCall ==
    /\ f_calls < MaxFCalls
    /\ \E r \in FReadings :
          /\ FUpdate(r)
          /\ f_next_track_id' <= MaxFIds + 1
    /\ f_calls' = f_calls + 1
    /\ UNCHANGED <<tvars, hvars, nvars>>

\* an update call of an aging run: any number of calls, plain readings
FAgingCall ==
    /\ \E r \in FAgingReadings :
          /\ FUpdate(r)
          /\ f_next_track_id' <= MaxFIds + 1
    /\ UNCHANGED f_calls
    /\ UNCHANGED <<tvars, hvars, nvars>>

FRegisterCall ==
    /\ \E s \in SensorIds : FRegisterSensor(s, SensorTypeOf(s))
    /\ UNCHANGED <<tvars, hvars, nvars>>

FGetTracksCall == FGetTracks /\ UNCHANGED <<tvars, hvars, nvars>>

FGetTrackCall == (\E id \in FLookupIds : FGetTrack(id)) /\ UNCHANGED <<tvars, hvars, nvars>>

FusionNext == FUpdateCall
FusionSpec == Init /\ [][FusionNext]_vars

FusionAgingNext == FAgingCall
FusionAgingSpec == Init /\ [][FusionAgingNext]_vars

\* an update call of a run of the two-sensor scenario
FScenarioCall ==
    /\ f_calls < MaxFCalls
    /\ \E r \in FScenarioReadings :
          /\ FUpdate(r)
          /\ f_next_track_id' <= MaxFIds + 1
    /\ f_calls' = f_calls + 1
    /\ UNCHANGED <<tvars, hvars, nvars>>

FusionScenarioNext == FScenarioCall
FusionScenarioSpec == Init /\ [][FusionScenarioNext]_vars

\* an update call on the fusion engine in a run of BoxSpec
FBoxCall ==
    /\ f_calls < MaxBoxCalls
    /\ \E r \in FBoxReadings :
          IF HasMalformedBBox(r.detections) THEN FUpdateRaises(r) ELSE FUpdate(r)
    /\ f_calls' = f_calls + 1
    /\ UNCHANGED <<tvars, hvars, nvars>>

\* an update call on the tracker in a run of BoxSpec
TBoxCall ==
    /\ t_calls < MaxBoxCalls
    /\ \E d \in TBoxDetectionLists : TUpdate(d)
    /\ t_calls' = t_calls + 1
    /\ UNCHANGED <<fvars, hvars, nvars>>

BoxNext == FBoxCall \/ TBoxCall
BoxSpec == Init /\ [][BoxNext]_vars

\* an update call on the fusion engine in a run of FieldSpec
FFieldCall ==
    /\ f_calls < MaxFieldCalls
    /\ \E r \in FFieldReadings : FUpdate(r)
    /\ f_calls' = f_calls + 1
    /\ UNCHANGED <<tvars, hvars, nvars>>

\* an update call on the tracker in a run of FieldSpec
TFieldCall ==
    /\ t_calls < MaxFieldCalls
    /\ \E d \in TFieldDetectionLists : TUpdate(d)
    /\ t_calls' = t_calls + 1
    /\ UNCHANGED <<fvars, hvars, nvars>>

FieldNext == FFieldCall \/ TFieldCall
FieldSpec == Init /\ [][FieldNext]_vars

\* the calls of a run of LookupSpec
FLookupUpdate ==
    /\ \E r \in FLookupReadings :
          /\ FUpdate(r)
          /\ f_next_track_id' <= MaxLookupIds + 1
    /\ UNCHANGED f_calls
    /\ UNCHANGED <<tvars, hvars, nvars>>

FLookupCall == (\E id \in FLookupArgs : FGetTrack(id)) /\ UNCHANGED <<tvars, hvars, nvars>>

TLookupUpdate ==
    /\ \E d \in TLookupDetectionLists :
          /\ TUpdate(d)
          /\ t_next_id' <= MaxLookupIds + 1
          /\ \A k \in 1..Len(t_tracks') : t_tracks'[k].hits <= MaxLookupHits
    /\ UNCHANGED t_calls
    /\ UNCHANGED <<fvars, hvars, nvars>>

TLookupCall == (\E id \in TLookupArgs : TGetTrack(id)) /\ UNCHANGED <<fvars, hvars, nvars>>

LookupNext == FLookupUpdate \/ FLookupCall \/ TLookupUpdate \/ TLookupCall
LookupSpec == Init /\ [][LookupNext]_vars

\* a run of ThreatSpec: readings with one detection each, then empty readings
FThreatFeed ==
    /\ f_calls < MaxThreatFeeds
    /\ f_calls > 0 => f_hist.reading.detections # <<>>
    /\ \E d \in ThreatDetections : FUpdate(ThreatReading(<<d>>))
    /\ f_calls' = f_calls + 1
    /\ UNCHANGED <<tvars, hvars, nvars>>

FThreatAge ==
    /\ f_calls > 0
    /\ FUpdate(ThreatReading(<<>>))
    /\ UNCHANGED f_calls
    /\ UNCHANGED <<tvars, hvars, nvars>>

ThreatNext == FThreatFeed \/ FThreatAge
ThreatSpec == Init /\ [][ThreatNext]_vars

MaxBoundFeeds == 2      \* readings with a detection in a run of ThreatBoundSpec

\* objects at the top of the confidence range: a vehicle and an aircraft whose threat
\* is exactly at a threshold (0.3 x 1.0, 0.5 x 1.0), and weapons under either spelling
ThreatBoundDetections ==
    { [class |-> "vehicle", confidence |-> 1000, bbox |-> BoxA],
      [class |-> "aircraft", confidence |-> 1000, bbox |-> BoxC],
      [class |-> "weapon", confidence |-> 600, bbox |-> BoxD],
      [class |-> "Weapon", confidence |-> 1000] }

\* a reading with one object, in a run of ThreatBoundSpec: the feeds come first
FBoundFeed ==
    /\ f_calls < MaxBoundFeeds
    /\ f_calls > 0 => f_hist.reading.detections # <<>>
    /\ \E d \in ThreatBoundDetections : FUpdate(ThreatReading(<<d>>))
    /\ f_calls' = f_calls + 1
    /\ UNCHANGED <<tvars, hvars, nvars>>

\* an empty reading, which ages every track
FBoundAge ==
    /\ f_calls > 0
    /\ FUpdate(ThreatReading(<<>>))
    /\ UNCHANGED f_calls
    /\ UNCHANGED <<tvars, hvars, nvars>>

ThreatBoundNext == FBoundFeed \/ FBoundAge
ThreatBoundSpec == Init /\ [][ThreatBoundNext]_vars

MaxClassCalls == 2      \* update calls on each engine in a run of ClassSpec

\* one object at one box, reported as a person or as a weapon
ClassDetections(bbox) ==
    { [class |-> c, confidence |-> 900, bbox |-> bbox] : c \in {"person", "weapon"} }

\* an update call on the fusion engine in a run of ClassSpec
FClassCall ==
    /\ f_calls < MaxClassCalls
    /\ \E d \in {<<>>} \cup { <<a>> : a \in ClassDetections(BoxA) } :
          FUpdate(ThreatReading(d))
    /\ f_calls' = f_calls + 1
    /\ UNCHANGED <<tvars, hvars, nvars>>

\* an update call on the tracker in a run of ClassSpec
TClassCall ==
    /\ t_calls < MaxClassCalls
    /\ \E d \in {<<>>} \cup { <<a>> : a \in ClassDetections(TBoxA) } : TUpdate(d)
    /\ t_calls' = t_calls + 1
    /\ UNCHANGED <<fvars, hvars, nvars>>

ClassNext == FClassCall \/ TClassCall
ClassSpec == Init /\ [][ClassNext]_vars

MaxRegisterCalls == 2   \* update calls in a run of RegisterSpec

\* an update call of a run of RegisterSpec
FRegisterUpdate ==
    /\ f_calls < MaxRegisterCalls
    /\ \E r \in FScenarioReadings : FUpdate(r)
    /\ f_calls' = f_calls + 1
    /\ UNCHANGED <<tvars, hvars, nvars>>

RegisterNext == FRegisterUpdate \/ FRegisterCall
RegisterSpec == Init /\ [][RegisterNext]_vars

\* every entry point of the fusion engine
EntryNext == FRegisterUpdate \/ FRegisterCall \/ FGetTracksCall \/ FGetTrackCall
EntrySpec == Init /\ [][EntryNext]_vars

\* on new engines, both compute the IoU of the same two boxes
IoUCall ==
    /\ f_out.op = "init"
    /\ \E box1 \in IoUInputs, box2 \in IoUInputs :
          /\ f_out' = FCalculateIoUCall(box1, box2)
          /\ t_out' = TIoUCall(box1, box2)
    /\ UNCHANGED <<f_sensors, f_tracks, f_kalman_filters, f_next_track_id, f_hist, f_calls>>
    /\ UNCHANGED <<t_tracks, t_next_id, t_hist, t_calls>>
    /\ UNCHANGED <<hvars, nvars>>

IoUNext == IoUCall
IoUSpec == Init /\ [][IoUNext]_vars

\* an update call of a run of AssocSpec
FAssocCall ==
    /\ f_calls < MaxAssocCalls
    /\ \E r \in AssocReadings : FUpdate(r)
    /\ f_calls' = f_calls + 1
    /\ UNCHANGED <<tvars, hvars, nvars>>

AssocNext == FAssocCall
AssocSpec == Init /\ [][AssocNext]_vars

\* aging runs whose caller also reads the tracks back
FusionAccessNext == FAgingCall \/ FGetTracksCall \/ FGetTrackCall
FusionAccessSpec == Init /\ [][FusionAccessNext]_vars

-----------------------------------------------------------------------------
(* Specifications of the tracker *)

\* an update call of a bounded run
TUpdateCall ==
    /\ t_calls < MaxTCalls
    /\ \E d \in TDetectionLists :
          /\ TUpdate(d)
          /\ t_next_id' <= MaxTIds + 1
    /\ t_calls' = t_calls + 1
    /\ UNCHANGED <<fvars, hvars, nvars>>

TResetCall ==
    /\ t_hist.resets < MaxResets
    /\ TReset
    /\ t_calls' = 0
    /\ UNCHANGED <<fvars, hvars, nvars>>

TGetAllCall == TGetAll /\ UNCHANGED <<fvars, hvars, nvars>>

TGetConfirmedCall == TGetConfirmed /\ UNCHANGED <<fvars, hvars, nvars>>

TGetTrackCall == (\E id \in TLookupIds : TGetTrack(id)) /\ UNCHANGED <<fvars, hvars, nvars>>

TrackerNext == TUpdateCall \/ TResetCall \/ TGetAllCall \/ TGetConfirmedCall
TrackerSpec == Init /\ [][TrackerNext]_vars

MaxResetUpdates == 3    \* update calls between two resets in a run of ResetSpec
MaxResetResets == 2     \* reset calls in a run of ResetSpec

\* the calls of a run of ResetSpec
TResetUpdate ==
    /\ t_calls < MaxResetUpdates
    /\ \E d \in TLostDetectionLists : TUpdate(d)
    /\ t_calls' = t_calls + 1
    /\ UNCHANGED <<fvars, hvars, nvars>>

TResetAgain ==
    /\ t_hist.resets < MaxResetResets
    /\ TReset
    /\ t_calls' = 0
    /\ UNCHANGED <<fvars, hvars, nvars>>

ResetNext == TResetUpdate \/ TResetAgain \/ TGetAllCall \/ TGetConfirmedCall
ResetSpec == Init /\ [][ResetNext]_vars

\* ObjectTracker() constructed anew in place of the second tracker
NConstruct ==
    /\ n_tracks' = <<>>
    /\ n_next_id' = 1
    /\ n_out' = [op |-> "init"]

\* ObjectTracker.update(detections) on the second tracker
NUpdate(detections) ==
    LET p == [k \in 1..Len(n_tracks) |-> TPredict(n_tracks[k])]
        m == TMatch(p, detections)
        eC == TCreateUnmatched([tracks |-> TUpdateMatched(p, m.matched, 1),
                                next_id |-> n_next_id], m.unmatched_dets, 1)
        tracks == TCleanup(TMarkUnmatched(eC.tracks, m.unmatched_tracks))
    IN  /\ TCallExact(n_tracks, m)
        /\ n_tracks' = tracks
        /\ n_next_id' = eC.next_id
        /\ n_out' = [op |-> "update", result |-> TUpdateResult(tracks)]

\* the accessors on the second tracker
NGetAll ==
    /\ n_out' = [op |-> "get_all_tracks", result |-> TGetAllTracks(n_tracks)]
    /\ UNCHANGED <<n_tracks, n_next_id>>

NGetConfirmed ==
    /\ n_out' = [op |-> "get_confirmed_tracks", result |-> TGetConfirmedTracks(n_tracks)]
    /\ UNCHANGED <<n_tracks, n_next_id>>

NGetTrack(track_id) ==
    /\ n_out' = IF InList(track_id, TTrackIds(n_tracks))
                THEN [op |-> "get_track", track_id |-> track_id, found |-> TRUE,
                      track |-> CHOOSE t \in SeqToSet(n_tracks) : t.track_id = track_id]
                ELSE [op |-> "get_track", track_id |-> track_id, found |-> FALSE]
    /\ UNCHANGED <<n_tracks, n_next_id>>

\* the calls of a run of FreshSpec: the first tracker is used, reset and used again;
\* at each reset a second tracker is constructed, and it is given every call the first
\* one gets from then on
TFreshUpdate ==
    /\ t_calls < MaxResetUpdates
    /\ \E d \in TLostDetectionLists :
          /\ TUpdate(d)
          /\ IF t_hist.resets > 0 THEN NUpdate(d) ELSE UNCHANGED nvars
    /\ t_calls' = t_calls + 1
    /\ UNCHANGED <<fvars, hvars>>

TFreshReset ==
    /\ t_hist.resets < MaxResetResets
    /\ TReset
    /\ NConstruct
    /\ t_calls' = 0
    /\ UNCHANGED <<fvars, hvars>>

TFreshGetAll ==
    /\ TGetAll
    /\ IF t_hist.resets > 0 THEN NGetAll ELSE UNCHANGED nvars
    /\ UNCHANGED <<fvars, hvars>>

TFreshGetConfirmed ==
    /\ TGetConfirmed
    /\ IF t_hist.resets > 0 THEN NGetConfirmed ELSE UNCHANGED nvars
    /\ UNCHANGED <<fvars, hvars>>

TFreshGetTrack ==
    /\ \E id \in TLookupIds :
          /\ TGetTrack(id)
          /\ IF t_hist.resets > 0 THEN NGetTrack(id) ELSE UNCHANGED nvars
    /\ UNCHANGED <<fvars, hvars>>

FreshNext ==
    TFreshUpdate \/ TFreshReset \/ TFreshGetAll \/ TFreshGetConfirmed \/ TFreshGetTrack
FreshSpec == Init /\ [][FreshNext]_vars

MaxTAssocCalls == 3     \* update calls in a run of TAssocSpec

TBoxQ == <<22000, 10000, 20000, 20000>>     \* [220, 100, 200, 200]: IoU 1/4 with TBoxA

\* three boxes in a row: TBoxB a third over TBoxA, TBoxQ a quarter over it
TAssocDetectionLists ==
    UpToTwo({ [class |-> "person", confidence |-> 900, bbox |-> b] :
                b \in {TBoxA, TBoxB, TBoxQ} })

\* an update call of a run of TAssocSpec
TAssocCall ==
    /\ t_calls < MaxTAssocCalls
    /\ \E d \in TAssocDetectionLists : TUpdate(d)
    /\ t_calls' = t_calls + 1
    /\ UNCHANGED <<fvars, hvars, nvars>>

TAssocNext == TAssocCall
TAssocSpec == Init /\ [][TAssocNext]_vars

\* Request layer (routers/sensors.py): the handlers that change an engine.  A request
\* is [handler, arg, pc, response]; the event loop runs a handler's coroutine from its
\* position pc up to its next suspension point ("await") or its end.

MaxRequests == 3        \* requests received in a run of RequestSpec

\* mutation of HandlerBody: update_tracking awaits between its two tracker calls
HandlerBodyAwaitBetweenCalls(handler) ==
    IF handler = "submit_sensor_data" THEN << <<"sensor_fusion.update">> >>
    ELSE IF handler = "update_tracking"
    THEN << <<"object_tracker.update">>, <<"object_tracker.get_all_tracks">> >>
    ELSE << <<"object_tracker.reset">> >>

\* the engine calls of a handler's body, grouped into the stretches between two
\* suspension points: no handler contains an "await", so each body is one stretch
HandlerBody(handler) ==
    IF handler = "submit_sensor_data" THEN << <<"sensor_fusion.update">> >>
    ELSE IF handler = "update_tracking"
    THEN << <<"object_tracker.update", "object_tracker.get_all_tracks">> >>
    ELSE << <<"object_tracker.reset">> >>

\* a request whose coroutine has run to its end
HFinished(req) == req.pc = Len(HandlerBody(req.handler)) + 1

\* the requests that can arrive: handler and argument
HRequestKinds ==
    { [handler |-> "submit_sensor_data", arg |-> r] : r \in FLookupReadings }
        \cup { [handler |-> "update_tracking", arg |-> d] : d \in TLookupDetectionLists }
        \cup { [handler |-> "reset_tracking", arg |-> <<>>] }

\* a request arrives and its handler coroutine is created
HAccept ==
    /\ Len(h_requests) < MaxRequests
    /\ \E k \in HRequestKinds :
          h_requests' = Append(h_requests, [handler |-> k.handler, arg |-> k.arg,
                                            pc |-> 1, response |-> <<>>])
    /\ UNCHANGED <<fvars, tvars, nvars>>

\* the event loop runs the next stretch of request i's handler
HRunStretch(i) ==
    LET req == h_requests[i]
        stretch == HandlerBody(req.handler)[req.pc]
    IN  /\ ~HFinished(req)
        /\ UNCHANGED nvars
        /\ \/ /\ stretch = <<"sensor_fusion.update">>
              /\ FUpdate(req.arg)
              /\ f_calls' = f_calls + 1
              /\ UNCHANGED tvars
              /\ h_requests' = [h_requests EXCEPT
                    ![i].pc = @ + 1,
                    ![i].response = [detection_count |-> Len(f_out'.detections),
                                     threat_level |-> f_out'.threat_level]]
           \/ /\ stretch = <<"object_tracker.update", "object_tracker.get_all_tracks">>
              /\ TUpdate(req.arg)
              /\ t_calls' = t_calls + 1
              /\ UNCHANGED fvars
              /\ h_requests' = [h_requests EXCEPT
                    ![i].pc = @ + 1,
                    ![i].response = [confirmed_tracks |-> Len(t_out'.result),
                                     total_tracks |-> Len(TGetAllTracks(t_tracks'))]]
           \/ /\ stretch = <<"object_tracker.update">>
              /\ TUpdate(req.arg)
              /\ t_calls' = t_calls + 1
              /\ UNCHANGED fvars
              /\ h_requests' = [h_requests EXCEPT
                    ![i].pc = @ + 1,
                    ![i].response = [confirmed_tracks |-> Len(t_out'.result)]]
           \/ /\ stretch = <<"object_tracker.get_all_tracks">>
              /\ TGetAll
              /\ UNCHANGED fvars
              /\ h_requests' = [h_requests EXCEPT
                    ![i].pc = @ + 1,
                    ![i].response = [confirmed_tracks |-> req.response.confirmed_tracks,
                                     total_tracks |-> Len(TGetAllTracks(t_tracks))]]
           \/ /\ stretch = <<"object_tracker.reset">>
              /\ TReset
              /\ t_calls' = 0
              /\ UNCHANGED fvars
              /\ h_requests' = [h_requests EXCEPT
                    ![i].pc = @ + 1,
                    ![i].response = [tracks |-> 0]]

\* POST /sensors/data
HSubmitSensorData ==
    \E i \in 1..Len(h_requests) :
        h_requests[i].handler = "submit_sensor_data" /\ HRunStretch(i)

\* POST /tracking/update
HUpdateTracking ==
    \E i \in 1..Len(h_requests) :
        h_requests[i].handler = "update_tracking" /\ HRunStretch(i)

\* POST /tracking/reset
HResetTracking ==
    \E i \in 1..Len(h_requests) :
        h_requests[i].handler = "reset_tracking" /\ HRunStretch(i)

RequestNext == HAccept \/ HSubmitSensorData \/ HUpdateTracking \/ HResetTracking
RequestSpec == Init /\ [][RequestNext]_vars

MaxLoopCalls == 3       \* update calls, of both engines together, in a run of LoopSpec

\* the update calls of a run of LoopSpec: the neighbouring boxes of the association
\* runs, fed to either engine
FLoopCall ==
    /\ f_calls + t_calls < MaxLoopCalls
    /\ \E r \in AssocReadings : FUpdate(r)
    /\ f_calls' = f_calls + 1
    /\ UNCHANGED <<tvars, hvars, nvars>>

TLoopCall ==
    /\ f_calls + t_calls < MaxLoopCalls
    /\ \E d \in TAssocDetectionLists : TUpdate(d)
    /\ t_calls' = t_calls + 1
    /\ UNCHANGED <<fvars, hvars, nvars>>

LoopNext == FLoopCall \/ TLoopCall
LoopSpec == Init /\ [][LoopNext]_vars

MaxLifeIds == 2     \* track ids the tracker allocates in a run of TLifeSpec
MaxLifeHits == 2    \* hits of one track in a run of TLifeSpec

\* the calls of a run of TLifeSpec: one object, seen or not seen, and the accessors
TLifeUpdate ==
    /\ \E d \in TLookupDetectionLists :
          /\ TUpdate(d)
          /\ t_next_id' <= MaxLifeIds + 1
          /\ \A k \in 1..Len(t_tracks') : t_tracks'[k].hits <= MaxLifeHits
    /\ UNCHANGED t_calls
    /\ UNCHANGED <<fvars, hvars, nvars>>

TLifeLookup ==
    /\ \E n \in 1..MaxLifeIds : TGetTrack(TTrackIdOf(n))
    /\ UNCHANGED <<fvars, hvars, nvars>>

TLifeNext == TLifeUpdate \/ TGetAllCall \/ TLifeLookup
TLifeSpec == Init /\ [][TLifeNext]_vars

\* an update call of a run that follows one object until it is lost
TLostCall ==
    /\ t_calls < MaxTLostCalls
    /\ \E d \in TLostDetectionLists :
          /\ TUpdate(d)
          /\ t_next_id' <= MaxTLostIds + 1
          /\ \A k \in 1..Len(t_tracks') : t_tracks'[k].hits <= MaxTLostHits
    /\ t_calls' = t_calls + 1
    /\ UNCHANGED <<fvars, hvars, nvars>>

TrackerLostNext == TLostCall
TrackerLostSpec == Init /\ [][TrackerLostNext]_vars

\* scenario runs: on a fresh tracker one detection is fed call after call, and then
\* empty lists are
TScenarioFeed ==
    /\ t_calls < MaxTFeeds
    /\ \E d \in TScenarioDetections :
          /\ t_calls > 0 => t_hist.detections = <<d>>
          /\ TUpdate(<<d>>)
    /\ t_calls' = t_calls + 1
    /\ UNCHANGED <<fvars, hvars, nvars>>

TScenarioMiss ==
    /\ t_calls > 0
    /\ t_calls < MaxTFeeds + MaxTMisses
    /\ TUpdate(<<>>)
    /\ t_calls' = t_calls + 1
    /\ UNCHANGED <<fvars, hvars, nvars>>

TrackerScenarioNext == TScenarioFeed \/ TScenarioMiss
TrackerScenarioSpec == Init /\ [][TrackerScenarioNext]_vars

\* the caller of the scenario keeps calling update: an update with an empty list that
\* can be made is made
TrackerScenarioFairSpec == TrackerScenarioSpec /\ WF_vars(TScenarioMiss)

-----------------------------------------------------------------------------
(* Properties of the fusion engine *)

FLiveIds == SeqToSet(FTrackIds(f_tracks))
FMatchedIds(h) == { h.matched[i][1] : i \in 1..Len(h.matched) }
NoDuplicates(seq) == \A i, j \in 1..Len(seq) : i # j => seq[i] # seq[j]
IsPrefix(a, b) == Len(a) <= Len(b) /\ \A i \in 1..Len(a) : a[i] = b[i]

\* the ids "T0001", "T0002", ... in the order of allocation
FIdsInOrder == <<"T0001", "T0002", "T0003", "T0004", "T0005", "T0006">>

\* C1: the ids one fusion engine has allocated are pairwise different, deleted
\* tracks' ids included; they are T0001, T0002, ... in this order; the live
\* tracks carry pairwise different ids, all of them allocated ids.
C1_FusionIdsUniqueSequential ==
    /\ NoDuplicates(f_hist.issued)
    /\ Len(f_hist.issued) <= Len(FIdsInOrder)
    /\ f_hist.issued = SubSeq(FIdsInOrder, 1, Len(f_hist.issued))
    /\ NoDuplicates(FTrackIds(f_tracks))
    /\ FLiveIds \subseteq SeqToSet(f_hist.issued)

\* C1's case: T0001 has been deleted and a track created after that is live
C1_Witness ==
    /\ Len(f_hist.issued) = 3
    /\ "T0001" \notin FLiveIds
    /\ "T0003" \in FLiveIds
    /\ \E i \in 1..Len(f_tracks) : f_tracks[i].track_id = "T0003" /\ f_tracks[i].bbox = BoxA

\* C3: every live fused track has fusion_confidence and class_confidence in [0, 1]
C3_ConfidencesInUnitInterval ==
    \A i \in 1..Len(f_tracks) :
        /\ 0 <= f_tracks[i].fusion_confidence /\ f_tracks[i].fusion_confidence <= 1000
        /\ 0 <= f_tracks[i].class_confidence /\ f_tracks[i].class_confidence <= 1000

\* C7: in every update call a live track's class_confidence does not decrease, and
\* a matched track's becomes the maximum of its old value and the confidence of
\* the detection it was matched with
C7_ClassConfidenceStep ==
    f_calls' = f_calls + 1 =>
        \A i \in 1..Len(f_tracks) : \A k \in 1..Len(f_tracks') :
            f_tracks'[k].track_id = f_tracks[i].track_id =>
                /\ f_tracks'[k].class_confidence >= f_tracks[i].class_confidence
                /\ \A n \in 1..Len(f_hist'.matched) :
                      f_hist'.matched[n][1] = f_tracks[i].track_id =>
                          LET c == Get(f_hist'.matched[n][2], "confidence", DefaultConfidence)
                          IN  f_tracks'[k].class_confidence =
                                IF c > f_tracks[i].class_confidence
                                THEN c ELSE f_tracks[i].class_confidence
C7_ClassConfidenceNonDecreasing == [][C7_ClassConfidenceStep]_vars

\* C7's case: a track was matched with a detection of lower confidence than its own
C7_Witness ==
    \E i \in 1..Len(f_tracks) : \E n \in 1..Len(f_hist.matched) :
        /\ f_hist.matched[n][1] = f_tracks[i].track_id
        /\ f_hist.matched[n][2].confidence < f_tracks[i].class_confidence

\* C8: sensor_sources of a new track is the creating sensor alone; it never holds
\* a sensor twice; across an update call the old list is a prefix of the new one;
\* after a match by sensor s it contains s
C8_SourcesStep ==
    f_calls' = f_calls + 1 =>
        /\ \A k \in 1..Len(f_tracks') :
              /\ NoDuplicates(f_tracks'[k].sensor_sources)
              /\ f_tracks'[k].track_id \notin FLiveIds =>
                    f_tracks'[k].sensor_sources = <<f_hist'.reading.sensor_id>>
              /\ f_tracks'[k].track_id \in FMatchedIds(f_hist') =>
                    InList(f_hist'.reading.sensor_id, f_tracks'[k].sensor_sources)
        /\ \A i \in 1..Len(f_tracks) : \A k \in 1..Len(f_tracks') :
              f_tracks'[k].track_id = f_tracks[i].track_id =>
                  IsPrefix(f_tracks[i].sensor_sources, f_tracks'[k].sensor_sources)
C8_SourcesAppendOnly == [][C8_SourcesStep]_vars

\* C8's case: a track with two sources was matched again by the sensor that created it
C8_Witness ==
    \E i \in 1..Len(f_tracks) :
        /\ Len(f_tracks[i].sensor_sources) = 2
        /\ f_tracks[i].track_id \in FMatchedIds(f_hist)
        /\ f_hist.reading.sensor_id = f_tracks[i].sensor_sources[1]
        /\ f_calls = 3

\* C9: in an update call, a track that existed before it is live afterwards with
\* age_frames 0 if the call matched it, and otherwise has age_frames one higher
\* (or is removed, its age being past max_age); a reading without detections
\* matches nothing
C9_AgeStep ==
    f_calls' = f_calls + 1 =>
        /\ \A i \in 1..Len(f_tracks) :
              LET id == f_tracks[i].track_id
                  after == { k \in 1..Len(f_tracks') : f_tracks'[k].track_id = id }
              IN  IF id \in FMatchedIds(f_hist')
                  THEN after # {} /\ \A k \in after : f_tracks'[k].age_frames = 0
                  ELSE /\ \A k \in after :
                             f_tracks'[k].age_frames = f_tracks[i].age_frames + 1
                       /\ after = {} => f_tracks[i].age_frames + 1 > f_max_age
        /\ f_hist'.reading.detections = <<>> => f_hist'.matched = <<>>
C9_AgeResetOrIncrement == [][C9_AgeStep]_vars

\* C9's case: of two tracks, the last call matched one and aged the other to 2
C9_Witness ==
    \E i, j \in 1..Len(f_tracks) :
        /\ f_tracks[i].track_id \in FMatchedIds(f_hist)
        /\ f_tracks[i].age_frames = 0
        /\ f_tracks[j].track_id \notin FMatchedIds(f_hist)
        /\ f_tracks[j].age_frames = 2

\* C10: no live track has age_frames above max_age, and the estimators are
\* exactly those of the live tracks
C10_AgeBoundedEstimatorsLive ==
    /\ \A i \in 1..Len(f_tracks) : f_tracks[i].age_frames <= f_max_age
    /\ DOMAIN f_kalman_filters = FLiveIds

\* C10's case: T0001 was removed by the last call while T0002, younger, stays
C10_Witness ==
    /\ "T0001" \in SeqToSet(f_hist.issued)
    /\ "T0001" \notin FLiveIds
    /\ "T0001" \notin DOMAIN f_kalman_filters
    /\ \E i \in 1..Len(f_tracks) :
          /\ f_tracks[i].track_id = "T0002"
          /\ f_tracks[i].age_frames = f_max_age

-----------------------------------------------------------------------------
(* Properties of the independent tracker *)

TLiveIds == TTrackIds(t_tracks)

\* the ids of a tracker in allocation order, written out
TIdsInOrder == <<"OBJ-00001", "OBJ-00002", "OBJ-00003", "OBJ-00004", "OBJ-00005", "OBJ-00006">>

\* C2 as stated: over any sequence of update and reset calls on one tracker, no id
\* is ever given to two different tracks.
C2_IdsNeverReassigned == NoDuplicates(t_hist.issued)

\* C2 amended: ids are unique among the tracks created since construction or the
\* most recent reset, and allocated in order from "OBJ-00001"; reset restarts the
\* allocation, so the first track after a reset is "OBJ-00001" again.
C2_IdsUniqueSinceReset ==
    /\ NoDuplicates(t_hist.epoch)
    /\ Len(t_hist.epoch) = t_next_id - 1
    /\ IsPrefix(t_hist.epoch, TIdsInOrder)
    /\ NoDuplicates(TLiveIds)
    /\ SeqToSet(TLiveIds) \subseteq SeqToSet(t_hist.epoch)

\* a reset has happened, two tracks were created after it, and an id issued before
\* the reset has been issued again
C2_Witness ==
    /\ t_hist.resets >= 1
    /\ Len(t_hist.epoch) >= 2
    /\ ~NoDuplicates(t_hist.issued)

\* C4 (state part): a track is confirmed exactly when its hit count has reached the
\* tracker's min_hits_to_confirm.
C4_ConfirmedIffHits ==
    \A k \in 1..Len(t_tracks) :
        t_tracks[k].is_confirmed <=> t_tracks[k].hits >= t_min_hits_to_confirm

\* C4 (step part): across any call, a track that stays alive keeps a confirmed flag
\* that was true, and gets it in the call in which its hits first reach the threshold.
C4_ConfirmedStep ==
    \A k \in 1..Len(t_tracks) : \A j \in 1..Len(t_tracks') :
        t_tracks'[j].track_id = t_tracks[k].track_id =>
            /\ t_tracks[k].is_confirmed => t_tracks'[j].is_confirmed
            /\ (t_tracks[k].hits < t_min_hits_to_confirm
                  /\ t_tracks'[j].hits >= t_min_hits_to_confirm)
                  => (~t_tracks[k].is_confirmed /\ t_tracks'[j].is_confirmed)

\* C4: the confirmed flag is true exactly when hits has reached min_hits_to_confirm;
\* it becomes true in the update call in which hits first reaches the threshold, is
\* false before, and never reverts while the track lives.
C4_ConfirmedExactlyAtThreshold == []C4_ConfirmedIffHits /\ [][C4_ConfirmedStep]_vars

\* a confirmed track past the threshold that has since missed a frame, next to a
\* tentative one
C4_Witness ==
    /\ \E k \in 1..Len(t_tracks) :
          /\ t_tracks[k].is_confirmed
          /\ t_tracks[k].hits = t_min_hits_to_confirm
          /\ t_tracks[k].misses > 0
    /\ \E k \in 1..Len(t_tracks) : ~t_tracks[k].is_confirmed

\* C5 as stated: a track becomes lost in the update cycle in which its miss counter
\* first exceeds the tracker's max_misses and not before (a track still within
\* max_misses is live and not lost); a lost track is absent from the live tracks and
\* from the result of update.
C5_LostExactlyPastMaxMisses ==
    /\ \A i \in 1..Len(t_hist.removed) : t_hist.removed[i].misses > t_max_misses
    /\ \A k \in 1..Len(t_tracks) :
          /\ ~t_tracks[k].is_lost
          /\ t_tracks[k].misses <= t_max_misses
    /\ t_out.op = "update" =>
          \A i \in 1..Len(t_out.result) : \A j \in 1..Len(t_hist.removed) :
              t_out.result[i].track_id # t_hist.removed[j].track_id

\* C6 (state part): the result of update is exactly the live tracks that are
\* confirmed and not lost, in order.
C6_UpdateResultState ==
    t_out.op = "update" =>
        /\ \A i \in 1..Len(t_out.result) :
              /\ t_out.result[i].is_confirmed /\ ~t_out.result[i].is_lost
              /\ InList(t_out.result[i], t_tracks)
        /\ \A k \in 1..Len(t_tracks) :
              (t_tracks[k].is_confirmed /\ ~t_tracks[k].is_lost)
                  => InList(t_tracks[k], t_out.result)
        /\ NoDuplicates(TTrackIds(t_out.result))

\* C6 (step part): an accessor called right after update.
C6_AccessorStep ==
    t_out.op = "update" =>
        /\ t_out'.op = "get_confirmed_tracks" => t_out'.result = t_out.result
        /\ t_out'.op = "get_all_tracks" =>
              /\ \A i \in 1..Len(t_out.result) : InList(t_out.result[i], t_out'.result)
              /\ \A k \in 1..Len(t_tracks) :
                    ~t_tracks[k].is_confirmed => InList(t_tracks[k], t_out'.result)
              /\ \A i \in 1..Len(t_out'.result) : InList(t_out'.result[i], t_tracks)

\* C6: update returns exactly the live tracks that are confirmed and not lost after
\* the cycle's cleanup; get_confirmed_tracks() right afterwards returns the same, and
\* get_all_tracks() returns these and the tentative tracks.
C6_UpdateReturnsConfirmed == []C6_UpdateResultState /\ [][C6_AccessorStep]_vars

\* an update that returned a confirmed track while a tentative track is live
C6_Witness ==
    /\ t_out.op = "update"
    /\ Len(t_out.result) >= 1
    /\ \E k \in 1..Len(t_tracks) : ~t_tracks[k].is_confirmed

-----------------------------------------------------------------------------
(* Scenarios and lookups of the fusion engine *)

\* C11 as stated: a track that goes through its max_age-th consecutive update cycle with
\* no matching detection is absent from the tracks get_tracks() returns next.
C11_AbsentAfterMaxAgeStep ==
    f_out'.op = "update" =>
        \A i \in 1..Len(f_tracks) :
            (/\ f_tracks[i].age_frames = f_max_age - 1
             /\ f_tracks[i].track_id \notin FMatchedIds(f_hist'))
                => f_tracks[i].track_id \notin FLiveIds'

C11_AbsentAfterMaxAgeCycles == [][C11_AbsentAfterMaxAgeStep]_vars

\* C11 amended (step part): a track that goes through an update cycle with no matching
\* detection is removed in that cycle if it had already gone max_age cycles unmatched,
\* and stays live, one cycle older, otherwise.
C11_AgedOutStep ==
    f_out'.op = "update" =>
        \A i \in 1..Len(f_tracks) :
            f_tracks[i].track_id \notin FMatchedIds(f_hist') =>
                IF f_tracks[i].age_frames >= f_max_age
                THEN f_tracks[i].track_id \notin FLiveIds'
                ELSE \E j \in 1..Len(f_tracks') :
                        /\ f_tracks'[j].track_id = f_tracks[i].track_id
                        /\ f_tracks'[j].age_frames = f_tracks[i].age_frames + 1

\* C11 amended (state part): get_tracks() returns the live tracks, none of which has
\* gone more than max_age cycles unmatched.
C11_GetTracksState ==
    f_out.op = "get_tracks" =>
        /\ f_out.tracks = f_tracks
        /\ \A i \in 1..Len(f_out.tracks) : f_out.tracks[i].age_frames <= f_max_age

\* C11 amended: a track is absent from get_tracks() once it has gone through more than
\* max_age (31) consecutive update cycles with no matching detection; after exactly
\* max_age (30) such cycles it is still returned, with age_frames = max_age.
C11_AbsentPastMaxAge == []C11_GetTracksState /\ [][C11_AgedOutStep]_vars

\* get_tracks() called after T0001 aged out, returning T0002 which has gone exactly
\* max_age cycles unmatched
C11_Witness ==
    /\ f_out.op = "get_tracks"
    /\ "T0001" \in SeqToSet(f_hist.issued)
    /\ \A i \in 1..Len(f_out.tracks) : f_out.tracks[i].track_id # "T0001"
    /\ \E i \in 1..Len(f_out.tracks) :
          /\ f_out.tracks[i].track_id = "T0002"
          /\ f_out.tracks[i].age_frames = f_max_age

\* the tracks the last update call created: live at age 0 without having been matched
FCreatedByLastCall(track) ==
    track.age_frames = 0 /\ track.track_id \notin FMatchedIds(f_hist)

\* an update step in which the reading of another sensor carries one detection, with
\* the box of a track the previous call created from a confidence in [0, 1], and that
\* detection is matched to the track; j is the track's place after the step
C12_SecondSensorMatches(i, j) ==
    /\ f_calls' = f_calls + 1
    /\ FCreatedByLastCall(f_tracks[i])
    /\ 0 <= f_tracks[i].class_confidence /\ f_tracks[i].class_confidence <= 1000
    /\ f_hist.reading.sensor_id = f_tracks[i].sensor_sources[1]
    /\ f_hist'.reading.sensor_id # f_hist.reading.sensor_id
    /\ Len(f_hist'.reading.detections) = 1
    /\ f_hist'.matched = <<<<f_tracks[i].track_id, f_hist'.reading.detections[1]>>>>
    /\ f_hist'.reading.detections[1].bbox = f_tracks[i].bbox
    /\ f_tracks'[j].track_id = f_tracks[i].track_id

\* what C12 says of the track besides its fusion confidence
C12_SameTrackTwoSources(i, j) ==
    /\ f_next_track_id' = f_next_track_id
    /\ FTrackIds(f_tracks') = FTrackIds(f_tracks)
    /\ f_tracks'[j].sensor_sources =
          <<f_hist.reading.sensor_id, f_hist'.reading.sensor_id>>

\* C12 as stated: when a track created by sensor s1 from confidence c in [0, 1] is next
\* matched by the identical box from another sensor s2, no track is created, the track
\* keeps its id, its sources are [s1, s2] and its fusion confidence is strictly higher.
C12_MatchStrictlyHigherStep ==
    \A i \in 1..Len(f_tracks) : \A j \in 1..Len(f_tracks') :
        C12_SecondSensorMatches(i, j) =>
            /\ C12_SameTrackTwoSources(i, j)
            /\ f_tracks'[j].fusion_confidence > f_tracks[i].fusion_confidence

C12_MatchStrictlyHigher == [][C12_MatchStrictlyHigherStep]_vars

\* C12 amended (step): the same, with the fusion confidence strictly higher when
\* c < 1 and unchanged at 1.0 when c = 1.
C12_MatchHigherBelowOneStep ==
    \A i \in 1..Len(f_tracks) : \A j \in 1..Len(f_tracks') :
        C12_SecondSensorMatches(i, j) =>
            /\ C12_SameTrackTwoSources(i, j)
            /\ f_tracks[i].fusion_confidence = f_tracks[i].class_confidence
            /\ IF f_tracks[i].class_confidence < 1000
               THEN f_tracks'[j].fusion_confidence > f_tracks[i].fusion_confidence
               ELSE f_tracks'[j].fusion_confidence = 1000
                       /\ f_tracks[i].fusion_confidence = 1000

\* C12 amended: a track created by s1 from confidence c in [0, 1] and next matched by
\* the identical box from another sensor s2 keeps its id with no track created, has
\* sources [s1, s2], and has a strictly higher fusion confidence if c < 1; if c = 1
\* the fusion confidence was 1.0 and stays 1.0.
C12_MatchHigherBelowOne == [][C12_MatchHigherBelowOneStep]_vars

\* the instance: cam1 then radar1 saw a person, 0.9, at [10, 10, 20, 20]; T0001 has
\* both sources and fusion confidence 0.96
C12_Witness ==
    /\ f_calls = 2
    /\ f_hist.reading.sensor_id = "radar1"
    /\ FTrackIds(f_tracks) = <<"T0001">>
    /\ f_tracks[1].sensor_sources = <<"cam1", "radar1">>
    /\ f_tracks[1].class_confidence = 900
    /\ f_tracks[1].fusion_confidence = 960
    /\ f_tracks[1].bbox = BoxA

-----------------------------------------------------------------------------
(* Scenarios of the independent tracker *)

\* so far every call of the run has fed the same one detection
TFeeding == t_calls > 0 /\ Len(t_hist.detections) = 1

\* C13: on a fresh tracker, the same positive-area box fed in consecutive update calls
\* makes exactly one track; calls 1 and 2 return no track; after call 3 there is
\* exactly one track, confirmed, with hits = 3 and misses = 0, and update returned it.
C13_ThreeCallsConfirm ==
    TFeeding =>
        /\ t_next_id = 2
        /\ Len(t_tracks) = 1
        /\ t_tracks[1].track_id = "OBJ-00001"
        /\ t_tracks[1].bbox = t_hist.detections[1].bbox
        /\ t_tracks[1].hits = t_calls
        /\ t_tracks[1].misses = 0
        /\ t_calls \in {1, 2} => (~t_tracks[1].is_confirmed /\ t_out.result = <<>>)
        /\ t_calls = 3 => (t_tracks[1].is_confirmed /\ t_out.result = t_tracks)

\* the state after the third call of the scenario
C13_Witness ==
    /\ TFeeding
    /\ t_calls = 3
    /\ Len(t_out.result) = 1
    /\ t_out.result[1].is_confirmed
    /\ t_out.result[1].hits = 3
    /\ t_out.result[1].misses = 0

\* the last call fed an empty list
TMissing == t_calls > 0 /\ t_hist.detections = <<>>

TResultIds == IF t_out.op = "update" THEN SeqToSet(TTrackIds(t_out.result)) ELSE {}

\* C14 (state part): while empty lists are fed, a confirmed track whose misses are
\* within the threshold of mark_missed is live and returned by update; a track the call
\* marked lost is neither live nor returned.
C14_ReturnedUntilLost ==
    TMissing =>
        /\ \A k \in 1..Len(t_tracks) :
              /\ ~t_tracks[k].is_lost
              /\ t_tracks[k].misses >= 1 /\ t_tracks[k].misses <= LostMisses
              /\ t_tracks[k].is_confirmed => t_tracks[k].track_id \in TResultIds
        /\ \A i \in 1..Len(t_hist.removed) :
              /\ t_hist.removed[i].misses = LostMisses + 1
              /\ t_hist.removed[i].track_id \notin TResultIds
              /\ t_hist.removed[i].track_id \notin SeqToSet(TLiveIds)

\* C14 (step part): an update with an empty list returns live tracks only, so a track
\* that was removed is in no later result.
C14_AbsentStaysAbsent ==
    t_hist'.detections = <<>> /\ t_out'.op = "update" =>
        /\ SeqToSet(TTrackIds(t_out'.result)) \subseteq SeqToSet(TLiveIds)
        /\ SeqToSet(TTrackIds(t_tracks')) \subseteq SeqToSet(TLiveIds)

\* C14: starting from a confirmed track, under repeated update calls with an empty list
\* the track is returned by update while its miss count is within the threshold,
\* eventually becomes lost, and is absent from the result of that call and of all
\* later ones.
C14_ConfirmedThenLost ==
    /\ []C14_ReturnedUntilLost
    /\ [][C14_AbsentStaysAbsent]_vars
    /\ (\E k \in 1..Len(t_tracks) : t_tracks[k].is_confirmed)
          ~> [](t_tracks = <<>> /\ TResultIds = {})

\* the call that lost a track which had been confirmed: it is gone from the result
C14_Witness ==
    /\ TMissing
    /\ Len(t_hist.removed) = 1
    /\ t_hist.removed[1].is_confirmed
    /\ t_hist.removed[1].is_lost
    /\ t_tracks = <<>>
    /\ t_out.result = <<>>

-----------------------------------------------------------------------------
(* Defaults for missing or malformed fields *)

\* a detection whose 'bbox' key is absent or whose box is not four numbers
NoUsableBBox(det) == "bbox" \notin DOMAIN det \/ Len(det.bbox) # 4

\* C15 as stated: no update call fails because of a detection's bbox; a detection whose
\* bbox is missing or malformed is treated as having the default box [0, 0, 100, 100],
\* for association and for the track it creates or updates.
C15_BBoxFallsBackToDefault ==
    /\ f_out.op = "update" =>
          /\ "raised" \notin DOMAIN f_out
          /\ \A n \in 1..Len(f_hist.reading.detections) :
                NoUsableBBox(f_hist.reading.detections[n]) =>
                    \E i \in 1..Len(f_tracks) :
                        /\ f_tracks[i].age_frames = 0
                        /\ f_tracks[i].bbox = DefaultBBox
    /\ t_out.op = "update" =>
          \A n \in 1..Len(t_hist.detections) :
              NoUsableBBox(t_hist.detections[n]) =>
                  \E k \in 1..Len(t_tracks) :
                      /\ t_tracks[k].misses = 0
                      /\ t_tracks[k].bbox = DefaultBBox

\* the detection with confidence 0.5 and class "unknown" written into it where it
\* carries none
WithFixedDefaults(det) ==
    [k \in DOMAIN det \cup {"confidence", "class"} |->
        IF k \in DOMAIN det THEN det[k]
        ELSE IF k = "confidence" THEN 500 ELSE "unknown"]

\* the detection with the confidence and class of the track written into it where it
\* carries none
WithFieldsOf(track, det) ==
    [k \in DOMAIN det \cup {"confidence", "class"} |->
        IF k \in DOMAIN det THEN det[k]
        ELSE IF k = "confidence" THEN track.confidence ELSE track.class_name]

LacksField(det) == "confidence" \notin DOMAIN det \/ "class" \notin DOMAIN det

\* a fusion update leaves the tracks the reading with the fixed defaults written in
\* would have left
C16_FusionAsExplicit ==
    f_calls' = f_calls + 1 =>
        f_tracks' = FTracksAfterUpdate(
            [tracks |-> f_tracks, kalman_filters |-> f_kalman_filters,
             next_track_id |-> f_next_track_id],
            [f_hist'.reading EXCEPT !.detections =
                [n \in 1..Len(f_hist'.reading.detections) |->
                    WithFixedDefaults(f_hist'.reading.detections[n])]])

\* a tracker update leaves the tracks the detections with the fixed defaults written in
\* would have left
C16_TrackerAsExplicit ==
    t_calls' = t_calls + 1 =>
        t_tracks' = TTracksAfterUpdate(t_tracks, t_next_id,
            [n \in 1..Len(t_hist'.detections) |-> WithFixedDefaults(t_hist'.detections[n])])

\* C16 as stated: in both engines a detection without a confidence or a class is handled
\* as the same detection with confidence 0.5 and class "unknown", at creation and on a
\* matched update alike.
C16_MissingFieldsAsDefaults == [][C16_FusionAsExplicit /\ C16_TrackerAsExplicit]_vars

\* the track a detection of a tracker update was matched to, before the update
TMatchedTrack(det) ==
    CHOOSE t \in SeqToSet(t_tracks) :
        \E i \in 1..Len(t_hist'.matched) :
            t_hist'.matched[i] = <<t.track_id, det>>

\* a tracker update leaves the tracks the detections would have left with the fixed
\* defaults written into the unmatched ones and the matched track's own confidence and
\* class written into the matched ones
C16_TrackerKeepsOnMatch ==
    t_calls' = t_calls + 1 =>
        t_tracks' = TTracksAfterUpdate(t_tracks, t_next_id,
            [n \in 1..Len(t_hist'.detections) |->
                LET det == t_hist'.detections[n]
                IN  IF \E i \in 1..Len(t_hist'.matched) : t_hist'.matched[i][2] = det
                    THEN WithFieldsOf(TMatchedTrack(det), det)
                    ELSE WithFixedDefaults(det)])

\* C16 amended: a detection without a confidence or a class is handled as the same
\* detection with confidence 0.5 and class "unknown" at track creation in both engines
\* and on a matched update in the fusion engine; on a matched update in the tracker
\* a missing confidence or class leaves the track's confidence or class as it was.
C16_MissingFieldsDefaultOrKept == [][C16_FusionAsExplicit /\ C16_TrackerKeepsOnMatch]_vars

\* both engines hold a track made from a full detection and matched, in the last call,
\* by a detection with neither field: the tracker's track still has 0.9 and "person"
C16_Witness ==
    /\ f_calls = 2 /\ t_calls = 2
    /\ Len(f_hist.matched) = 1 /\ LacksField(f_hist.matched[1][2])
    /\ f_tracks[1].class_confidence = 900
    /\ Len(t_hist.matched) = 1 /\ DOMAIN t_hist.matched[1][2] = {"bbox"}
    /\ t_tracks[1].confidence = 900
    /\ t_tracks[1].class_name = "person"

\* the result of the last call is the one get_track gives for its argument on the
\* tracks the engine holds: the track with that id, or None, and no exception
C17_LookupState ==
    /\ f_out.op = "get_track" =>
          /\ "raised" \notin DOMAIN f_out
          /\ f_out.found <=> \E k \in 1..Len(f_tracks) : f_tracks[k].track_id = f_out.track_id
          /\ f_out.found => f_out.track \in SeqToSet(f_tracks)
                            /\ f_out.track.track_id = f_out.track_id
    /\ t_out.op = "get_track" =>
          /\ "raised" \notin DOMAIN t_out
          /\ t_out.found <=> \E k \in 1..Len(t_tracks) : t_tracks[k].track_id = t_out.track_id
          /\ t_out.found => t_out.track \in SeqToSet(t_tracks)
                            /\ t_out.track.track_id = t_out.track_id

\* a call of get_track changes nothing but the result handed back
C17_LookupStep ==
    /\ (f_out'.op = "get_track" /\ f_out' # f_out) =>
          UNCHANGED <<f_sensors, f_tracks, f_kalman_filters, f_next_track_id>>
    /\ (t_out'.op = "get_track" /\ t_out' # t_out) =>
          UNCHANGED <<t_tracks, t_next_id>>

\* C17: get_track of an id that is not live (never allocated, or removed) returns None
\* and raises nothing, in both engines, and leaves the engine's state unchanged.
C17_AbsentIdGivesNone == []C17_LookupState /\ [][C17_LookupStep]_vars

\* both engines were asked for an id they had allocated and removed, and said None
C17_Witness ==
    /\ f_out.op = "get_track" /\ ~f_out.found
    /\ InList(f_out.track_id, f_hist.issued)
    /\ t_out.op = "get_track" /\ ~t_out.found
    /\ InList(t_out.track_id, t_hist.issued)

\* the label of a threat value, in 1/10000
C18_Label(threat) ==
    IF threat > 7000 THEN "CRITICAL"
    ELSE IF threat > 5000 THEN "HIGH"
    ELSE IF threat > 3000 THEN "MEDIUM"
    ELSE "LOW"

\* the threat table, in tenths
C18_Weight(class_name) ==
    IF class_name = "person" THEN 2
    ELSE IF class_name = "vehicle" THEN 3
    ELSE IF class_name = "aircraft" THEN 5
    ELSE IF class_name = "weapon" THEN 9
    ELSE 1

\* the label of a set of threat values, LOW for the empty set
C18_LabelOfMax(threats) ==
    IF threats = {} THEN "LOW"
    ELSE C18_Label(CHOOSE v \in threats : \A w \in threats : w <= v)

\* C18 as stated: the threat_level of an output is the label of the maximum, over the
\* tracks live after the call's cleanup, of the table weight of the track's class times
\* its fusion confidence; it is a function of the track set alone.
C18_ThreatIsLabelOfMax ==
    f_out.op = "update" =>
        f_out.threat_level =
            C18_LabelOfMax({ C18_Weight(f_tracks[k].class_name) * f_tracks[k].fusion_confidence :
                             k \in 1..Len(f_tracks) })

\* C18 amended: the same, the table being read with the class name in lower case
\* ("Weapon" and "weapon" both weigh 0.9).
C18_ThreatIsLabelOfMaxLowerCase ==
    f_out.op = "update" =>
        f_out.threat_level =
            C18_LabelOfMax({ C18_Weight(Lower(f_tracks[k].class_name)) * f_tracks[k].fusion_confidence :
                             k \in 1..Len(f_tracks) })

\* the "Weapon" track that made the scene CRITICAL has just aged out, and the label
\* fell to that of the track that remains
C18_Witness ==
    /\ f_out.op = "update"
    /\ Len(f_tracks) = 1
    /\ f_tracks[1].class_name = "aircraft"
    /\ f_tracks[1].age_frames = f_max_age
    /\ f_out.threat_level = "MEDIUM"
    /\ Len(f_hist.issued) = 2

\* after reset the tracker holds what a new tracker holds: no track, next id 1
C19_ResetState ==
    t_out.op = "reset" => t_tracks = <<>> /\ t_next_id = 1

\* a reset clears the tracks and the counter from any state and changes nothing when
\* it follows a reset; an accessor called right after a reset returns an empty list
C19_ResetStep ==
    /\ t_hist'.resets = t_hist.resets + 1 =>
          /\ t_tracks' = <<>> /\ t_next_id' = 1
          /\ t_out.op = "reset" => <<t_tracks', t_next_id'>> = <<t_tracks, t_next_id>>
    /\ (t_out.op = "reset" /\ t_out'.op \in {"get_all_tracks", "get_confirmed_tracks"}) =>
          /\ t_out'.result = <<>>
          /\ UNCHANGED <<t_tracks, t_next_id>>

\* C19: reset clears all tracker state: from any reachable state, get_all_tracks and
\* get_confirmed_tracks called after reset return an empty collection, and a second
\* reset leaves the state the first one left.
C19_ResetClearsAll == []C19_ResetState /\ [][C19_ResetStep]_vars

\* tracks were created before the last of two resets, none since, and
\* get_confirmed_tracks has returned the empty list
C19_Witness ==
    /\ t_hist.resets = 2
    /\ t_hist.epoch = <<>>
    /\ t_hist.issued # <<>>
    /\ t_out = [op |-> "get_confirmed_tracks", result |-> <<>>]
    /\ t_calls = 0

\* every sensor id is listed once among the active sensors
C20_SensorsState == NoDuplicates(FSensorKeys(f_sensors))

\* a call of register_sensor(s, t) leaves the tracks, the estimators and the id counter
\* alone, lists s (after the sensors listed before, if it is new) with type t, and
\* changes nothing at all when it repeats the call before it
C20_RegisterStep ==
    f_out'.op = "register_sensor" =>
        /\ UNCHANGED <<f_tracks, f_kalman_filters, f_next_track_id>>
        /\ <<f_out'.sensor_id, f_out'.sensor_type>> \in SeqToSet(f_sensors')
        /\ FSensorKeys(f_sensors') =
              IF InList(f_out'.sensor_id, FSensorKeys(f_sensors))
              THEN FSensorKeys(f_sensors)
              ELSE Append(FSensorKeys(f_sensors), f_out'.sensor_id)
        /\ f_out = f_out' => f_sensors' = f_sensors

\* C20: register_sensor is idempotent: a second register_sensor(s, t) leaves the state
\* the first one left (the same active sensor ids, s listed once), and no call of it
\* changes the tracks, the estimators or the id counter.
C20_RegisterIdempotent == []C20_SensorsState /\ [][C20_RegisterStep]_vars

\* radar1, listed before cam1 sent the reading that made a track, is registered again
C20_Witness ==
    /\ f_out.op = "register_sensor" /\ f_out.sensor_id = "radar1"
    /\ FSensorKeys(f_sensors) = <<"radar1", "cam1">>
    /\ f_tracks # <<>>

\* C21 as stated: get_tracks, get_track and register_sensor leave the track map, the
\* estimators, the id counter and the sensor registry unchanged.
C21_OnlyUpdateMutatesStep ==
    f_out'.op \in {"get_tracks", "get_track", "register_sensor"} =>
        UNCHANGED <<f_sensors, f_tracks, f_kalman_filters, f_next_track_id>>

C21_OnlyUpdateMutates == [][C21_OnlyUpdateMutatesStep]_vars

\* the accessors change nothing; register_sensor(s, t) changes the registry only, where s
\* gets the type t and, if it is new, the last place
C21_AccessorsFrameStep ==
    /\ f_out'.op \in {"get_tracks", "get_track"} =>
          UNCHANGED <<f_sensors, f_tracks, f_kalman_filters, f_next_track_id>>
    /\ f_out'.op = "register_sensor" =>
          /\ UNCHANGED <<f_tracks, f_kalman_filters, f_next_track_id>>
          /\ \/ f_sensors' = Append(f_sensors, <<f_out'.sensor_id, f_out'.sensor_type>>)
             \/ /\ Len(f_sensors') = Len(f_sensors)
                /\ \A i \in 1..Len(f_sensors) :
                      f_sensors'[i] = IF f_sensors[i][1] = f_out'.sensor_id
                                      THEN <<f_out'.sensor_id, f_out'.sensor_type>>
                                      ELSE f_sensors[i]

\* the active sensors of an output are the registry, which holds every sensor that was
\* registered or has sent a reading
C21_ActiveSensorsState ==
    f_out.op = "update" => f_out.active_sensors = FSensorKeys(f_sensors)

\* C21 amended: get_tracks and get_track leave the whole engine state unchanged;
\* register_sensor leaves the track map, the estimators and the id counter unchanged but
\* writes the sensor registry, so the active sensors of a later output list a sensor
\* that was registered in between.
C21_OnlyUpdateAndRegisterMutate ==
    []C21_ActiveSensorsState /\ [][C21_AccessorsFrameStep]_vars

\* the only update so far came from cam1, and its output lists radar1, registered
\* before it, first
C21_Witness ==
    /\ f_calls = 1
    /\ f_out.op = "update"
    /\ f_hist.reading.sensor_id = "cam1"
    /\ f_out.active_sensors = <<"radar1", "cam1">>
    /\ f_tracks # <<>>

\* two boxes share no area: one is degenerate, or they are apart or only touch
C22_NoOverlap(a, b) ==
    \/ a[3] = 0 \/ a[4] = 0 \/ b[3] = 0 \/ b[4] = 0
    \/ a[1] + a[3] <= b[1] \/ b[1] + b[3] <= a[1]
    \/ a[2] + a[4] <= b[2] \/ b[2] + b[4] <= a[2]

\* the four properties of a quotient iou computed for the boxes a and b, swapped the
\* value computed for b and a
C22_IoULaws(a, b, iou, swapped) ==
    /\ iou[2] > 0 /\ 0 <= iou[1] /\ iou[1] <= iou[2]
    /\ (a = b /\ a[3] > 0 /\ a[4] > 0) => iou[1] = iou[2]
    /\ C22_NoOverlap(a, b) <=> iou[1] = 0
    /\ iou[1] * swapped[2] = swapped[1] * iou[2]

\* C22: on the boxes of the grid the IoU of both engines lies in [0, 1], is 1 for a box
\* of positive area with itself, is 0 when the boxes do not overlap (touching included)
\* or one is degenerate, and is symmetric.
C22_IoUProperties ==
    /\ (f_out.op = "_calculate_iou" /\ f_out.box1 # <<>> /\ f_out.box2 # <<>>) =>
          /\ ~f_out.raised
          /\ C22_IoULaws(f_out.box1, f_out.box2, f_out.result,
                         FCalculateIoU(f_out.box2, f_out.box1))
    /\ (t_out.op = "_iou" /\ t_out.box1 # <<>> /\ t_out.box2 # <<>>) =>
          /\ ~t_out.raised
          /\ C22_IoULaws(t_out.box1, t_out.box2, t_out.result,
                         TIoU(t_out.box2, t_out.box1))

\* both engines computed 1 for a box of positive area and itself
C22_Witness ==
    /\ f_out.op = "_calculate_iou" /\ t_out.op = "_iou"
    /\ f_out.box1 = <<1, 1, 2, 1>> /\ f_out.box2 = f_out.box1
    /\ f_out.result[1] = f_out.result[2]
    /\ t_out.result[1] = t_out.result[2]

\* C23: for every pair of inputs, an absent box on either side included, the two
\* engines' IoU give the same outcome, which is 0 when a box is absent.
C23_SameIoUInBothEngines ==
    f_out.op = "_calculate_iou" =>
        /\ f_out.raised = t_out.raised
        /\ ~f_out.raised =>
              f_out.result[1] * t_out.result[2] = t_out.result[1] * f_out.result[2]
        /\ (f_out.box1 = <<>> \/ f_out.box2 = <<>>) =>
              ~f_out.raised /\ f_out.result[1] = 0

\* the tracks a detection box may be matched to: those not in used whose box has an
\* IoU above 0.3 with it
C24_Candidates(tracks, used, det_bbox) ==
    { k \in 1..Len(tracks) :
        /\ k \notin used
        /\ tracks[k].bbox # <<>>
        /\ LET iou == FCalculateIoU(det_bbox, tracks[k].bbox)
           IN  FracLess(3, 10, iou[1], iou[2]) }

\* the candidate of the highest IoU, the first of them in the order of the track map
C24_Best(tracks, cand, det_bbox) ==
    CHOOSE k \in cand : \A j \in cand :
        LET iouk == FCalculateIoU(det_bbox, tracks[k].bbox)
            iouj == FCalculateIoU(det_bbox, tracks[j].bbox)
        IN  \/ FracLess(iouj[1], iouj[2], iouk[1], iouk[2])
            \/ ~FracLess(iouk[1], iouk[2], iouj[1], iouj[2]) /\ k <= j

\* the pairs the rule of the claim gives for the detections from index i on, used being
\* the tracks matched to the detections before i
RECURSIVE C24_Pairs(_, _, _, _)
C24_Pairs(tracks, detections, i, used) ==
    IF i > Len(detections) THEN <<>>
    ELSE LET det_bbox == IF "bbox" \in DOMAIN detections[i] THEN detections[i].bbox
                         ELSE <<0, 0, 10000, 10000>>
             cand == C24_Candidates(tracks, used, det_bbox)
         IN  IF cand = {} THEN C24_Pairs(tracks, detections, i + 1, used)
             ELSE LET k == C24_Best(tracks, cand, det_bbox)
                  IN  <<<<tracks[k].track_id, detections[i]>>>>
                         \o C24_Pairs(tracks, detections, i + 1, used \cup {k})

C24_AssociationStep ==
    f_calls' = f_calls + 1 =>
        /\ f_hist'.matched = C24_Pairs(f_tracks, f_hist'.reading.detections, 1, {})
        /\ \A a, b \in 1..Len(f_hist'.matched) :
              f_hist'.matched[a][1] = f_hist'.matched[b][1] => a = b
        /\ Len(f_hist'.matched) <= Len(f_hist'.reading.detections)

\* C24: taking the reading's detections in order, each is matched to the track, among
\* those that existed before the call and are not yet matched, whose box has the highest
\* IoU with the detection's box, if that IoU is above 0.3, the first such track winning
\* a tie; no track is matched twice and no detection twice.
C24_GreedyAssociation == [][C24_AssociationStep]_vars

\* T0001 at BoxA and T0002 at BoxE were made by the first call; the second call's
\* detection at BoxB, a third over each, went to T0001
C24_Witness ==
    /\ f_calls = 2
    /\ Len(f_tracks) = 2
    /\ f_hist.matched = <<<<"T0001", [class |-> "person", confidence |-> 900, bbox |-> BoxB]>>>>
    /\ f_tracks[1].position = <<2700, 2000>>
    /\ f_tracks[2].bbox = BoxE /\ f_tracks[2].age_frames = 1

\* the IoU of track i's box (the predicted one if there is one) and detection j's
C25_IoU(tracks, detections, i, j) ==
    TIoU(IF tracks[i].predicted_bbox # <<>> THEN tracks[i].predicted_bbox ELSE tracks[i].bbox,
         IF "bbox" \in DOMAIN detections[j] THEN detections[j].bbox
         ELSE <<0, 0, 10000, 10000>>)

\* cost(i, j) < cost(k, l), a cost being 1 - IoU
C25_Cheaper(tracks, detections, i, j, k, l) ==
    LET a == C25_IoU(tracks, detections, i, j)
        b == C25_IoU(tracks, detections, k, l)
    IN  FracLess(b[1], b[2], a[1], a[2])

\* the pairs the rule of the claim accepts, in order, usedT and usedD being the tracks
\* and detections of the pairs accepted before; of equal costs the first in the order
\* of the matrix, rows before columns, is taken
RECURSIVE C25_Pairs(_, _, _, _)
C25_Pairs(tracks, detections, usedT, usedD) ==
    LET free == { c \in (1..Len(tracks)) \X (1..Len(detections)) :
                    c[1] \notin usedT /\ c[2] \notin usedD }
    IN  IF free = {} THEN <<>>
        ELSE LET min == CHOOSE c \in free : \A d \in free :
                            /\ ~C25_Cheaper(tracks, detections, d[1], d[2], c[1], c[2])
                            /\ C25_Cheaper(tracks, detections, c[1], c[2], d[1], d[2])
                                 \/ c[1] < d[1] \/ (c[1] = d[1] /\ c[2] <= d[2])
                 iou == C25_IoU(tracks, detections, min[1], min[2])
             IN  IF FracLess(iou[1], iou[2], 1, 4) THEN <<>>
                 ELSE <<<<tracks[min[1]].track_id, detections[min[2]]>>>>
                        \o C25_Pairs(tracks, detections,
                                     usedT \cup {min[1]}, usedD \cup {min[2]})

C25_AssociationStep ==
    t_calls' = t_calls + 1 =>
        /\ t_hist'.matched =
              C25_Pairs([k \in 1..Len(t_tracks) |-> TPredict(t_tracks[k])],
                        t_hist'.detections, {}, {})
        /\ \A a, b \in 1..Len(t_hist'.matched) :
              t_hist'.matched[a][1] = t_hist'.matched[b][1] => a = b
        /\ Len(t_hist'.matched) <= Len(t_hist'.detections)

\* C25: the tracker accepts matches in non-decreasing cost order, each the lowest cost
\* (1 - IoU against the predicted box, else the last box) among the tracks and
\* detections still unmatched, accepts a pair exactly when its cost is at most
\* 1 - 0.25, stops at the first minimum above that, and matches one-to-one.
C25_GlobalGreedyAssociation == [][C25_AssociationStep]_vars

\* a track predicted at TBoxA was matched by the one detection of the call, at TBoxQ:
\* IoU 1/4, cost exactly 1 - 0.25
C25_Witness ==
    /\ t_calls = 2
    /\ Len(t_hist.matched) = 1
    /\ t_hist.matched[1][2].bbox = TBoxQ
    /\ Len(t_tracks) = 1
    /\ t_tracks[1].predicted_bbox = TBoxA
    /\ t_tracks[1].bbox = TBoxQ
    /\ t_tracks[1].hits = 2

\* C26 as stated: after a matched update the track's box is the box association compared
\* with the track: the detection's bbox, or the default box [0, 0, 100, 100] when the
\* detection carries none; in the fusion engine and in the tracker.
C26_MatchedTrackTakesAssociationBox ==
    /\ (f_out.op = "update" /\ "raised" \notin DOMAIN f_out) =>
          \A n \in 1..Len(f_hist.matched) :
              \E i \in 1..Len(f_tracks) :
                  /\ f_tracks[i].track_id = f_hist.matched[n][1]
                  /\ f_tracks[i].bbox = IF "bbox" \in DOMAIN f_hist.matched[n][2]
                                        THEN f_hist.matched[n][2].bbox
                                        ELSE <<0, 0, 10000, 10000>>
    /\ t_out.op = "update" =>
          \A n \in 1..Len(t_hist.matched) :
              \E k \in 1..Len(t_tracks) :
                  /\ t_tracks[k].track_id = t_hist.matched[n][1]
                  /\ t_tracks[k].bbox = IF "bbox" \in DOMAIN t_hist.matched[n][2]
                                        THEN t_hist.matched[n][2].bbox
                                        ELSE <<0, 0, 10000, 10000>>

\* min(1, 0.3 n + 0.4 c) in 1/1000
C27_Formula(n_sources, class_confidence) ==
    LET v == 300 * n_sources + (4 * class_confidence) \div 10
    IN  IF v > 1000 THEN 1000 ELSE v

C27_FusionConfidenceStep ==
    f_calls' = f_calls + 1 =>
        \A k \in 1..Len(f_tracks') :
            LET new == f_tracks'[k]
                was_matched == \E n \in 1..Len(f_hist'.matched) :
                                  f_hist'.matched[n][1] = new.track_id
            IN  /\ was_matched =>
                      new.fusion_confidence =
                          C27_Formula(Len(new.sensor_sources), new.class_confidence)
                /\ \A i \in 1..Len(f_tracks) :
                      (f_tracks[i].track_id = new.track_id /\ ~was_matched) =>
                          /\ new.fusion_confidence = f_tracks[i].fusion_confidence
                          /\ new.class_confidence = f_tracks[i].class_confidence
                          /\ new.sensor_sources = f_tracks[i].sensor_sources
                          /\ new.bbox = f_tracks[i].bbox

\* C27: a match sets the track's fusion_confidence to
\* min(1, 0.3 x |sensor_sources| + 0.4 x class_confidence) of the sources and class
\* confidence it has after that match, and a cycle in which the track is not matched
\* leaves its fusion_confidence, class_confidence, sources and box as they were.
C27_FusionConfidenceFromLastMatch == [][C27_FusionConfidenceStep]_vars

\* a track seen by both sensors at 0.9 has gone through an unmatched cycle and still
\* has 0.3 x 2 + 0.4 x 0.9 = 0.96
C27_Witness ==
    /\ f_calls = 3
    /\ Len(f_tracks) = 1
    /\ Len(f_tracks[1].sensor_sources) = 2
    /\ f_tracks[1].class_confidence = 900
    /\ f_tracks[1].age_frames = 1
    /\ f_tracks[1].fusion_confidence = 960

\* the detections of a reading that association left unmatched, in order: the matched
\* ones taken out one by one
RECURSIVE C28_Unmatched(_, _, _)
C28_Unmatched(detections, matched, n) ==
    IF n > Len(matched) THEN detections
    ELSE C28_Unmatched(ListRemove(detections, matched[n][2]), matched, n + 1)

C28_CreationStep ==
    f_calls' = f_calls + 1 =>
        LET old_ids == { f_tracks[i].track_id : i \in 1..Len(f_tracks) }
            created == SelectSeq(f_tracks', LAMBDA t : t.track_id \notin old_ids)
            unmatched == C28_Unmatched(f_hist'.reading.detections, f_hist'.matched, 1)
        IN  /\ Len(created) = Len(unmatched)
            /\ \A k \in 1..Len(created) :
                  LET det == unmatched[k]
                      box == IF "bbox" \in DOMAIN det THEN det.bbox ELSE <<0, 0, 10000, 10000>>
                      conf == IF "confidence" \in DOMAIN det THEN det.confidence ELSE 500
                  IN  /\ created[k].sensor_sources = <<f_hist'.reading.sensor_id>>
                      /\ created[k].fusion_confidence = conf
                      /\ created[k].class_confidence = conf
                      /\ created[k].bbox = box
                      /\ 2 * created[k].position[1] = 2 * box[1] + box[3]
                      /\ 2 * created[k].position[2] = 2 * box[2] + box[4]
                      /\ created[k].age_frames = 0
                      /\ created[k] \in SeqToSet(f_out'.detections)
            /\ \A a, b \in 1..Len(created) : created[a].track_id = created[b].track_id => a = b

\* C28: every detection association leaves unmatched creates one new track in the same
\* call, with the reading's sensor as its only source, fusion and class confidence equal
\* to the detection's confidence, position at the centroid of its box and age 0; the
\* track is not aged in that call and is in the output the call returns.
C28_UnmatchedCreatesTrack == [][C28_CreationStep]_vars

\* a reading of two detections: the first matched T0001, the second created T0002,
\* which the output shows with age 0
C28_Witness ==
    /\ f_out.op = "update"
    /\ Len(f_hist.reading.detections) = 2
    /\ Len(f_hist.matched) = 1 /\ f_hist.matched[1][1] = "T0001"
    /\ Len(f_out.detections) = 2
    /\ f_out.detections[2].track_id = "T0002"
    /\ f_out.detections[2].age_frames = 0
    /\ f_out.detections[2].sensor_sources = <<f_hist.reading.sensor_id>>
    /\ f_hist.issued = <<"T0001", "T0002">>
    /\ f_calls = 2

\* in an update call a track that existed before it is matched (hits + 1, misses 0,
\* age + 1) or not (misses + 1, hits as before, age + 1), whether it stays or is removed
\* at the end of the call; a track the call creates starts at hits 1, misses 0, age 0
C29_CountersStep ==
    t_calls' = t_calls + 1 =>
        LET after == SeqToSet(t_tracks') \cup SeqToSet(t_hist'.removed)
            old_ids == { t_tracks[i].track_id : i \in 1..Len(t_tracks) }
        IN  /\ \A i \in 1..Len(t_tracks) :
                  LET old == t_tracks[i]
                      same == { t \in after : t.track_id = old.track_id }
                      was_matched == \E n \in 1..Len(t_hist'.matched) :
                                        t_hist'.matched[n][1] = old.track_id
                  IN  /\ Cardinality(same) = 1
                      /\ \A new \in same :
                            /\ new.age = old.age + 1
                            /\ was_matched => new.hits = old.hits + 1 /\ new.misses = 0
                            /\ ~was_matched => new.hits = old.hits
                                               /\ new.misses = old.misses + 1
                            /\ new.hits >= old.hits
            /\ \A t \in after :
                  t.track_id \notin old_ids => t.hits = 1 /\ t.misses = 0 /\ t.age = 0

\* the age of a live track covers its matches after the first and its current misses
C29_CountersState ==
    \A k \in 1..Len(t_tracks) :
        /\ t_tracks[k].hits >= 1 /\ t_tracks[k].misses >= 0
        /\ t_tracks[k].age >= (t_tracks[k].hits - 1) + t_tracks[k].misses

\* C29: in every tracker update each track that existed before takes exactly one of two
\* steps, matched (hits + 1, misses := 0, age + 1) or unmatched (misses + 1, hits
\* unchanged, age + 1); so hits never decreases, misses counts the unmatched cycles since
\* the last match and age the cycles since the one that created the track.
C29_HitsMissesAge == []C29_CountersState /\ [][C29_CountersStep]_vars

\* a track was missed twice and then matched again: its misses are back at 0 and its
\* age counts all three cycles
C29_Witness ==
    \E k \in 1..Len(t_tracks) :
        /\ t_tracks[k].hits = 2
        /\ t_tracks[k].misses = 0
        /\ t_tracks[k].age = 3

\* no live track is lost, the accessors return no lost track, and the tracks the last
\* update removed were lost and are not live
C30_NoLostState ==
    /\ \A k \in 1..Len(t_tracks) : ~t_tracks[k].is_lost
    /\ t_out.op = "get_all_tracks" =>
          /\ t_out.result = t_tracks
          /\ \A k \in 1..Len(t_out.result) : ~t_out.result[k].is_lost
    /\ (t_out.op = "get_track" /\ t_out.found) => ~t_out.track.is_lost
    /\ t_out.op = "update" =>
          \A n \in 1..Len(t_hist.removed) :
              /\ t_hist.removed[n].is_lost
              /\ \A k \in 1..Len(t_tracks) : t_tracks[k].track_id # t_hist.removed[n].track_id

\* a track that enters the live set has an id that was not given out since the last
\* reset (or construction), so not the id of a track removed since
C30_NoReturnStep ==
    t_hist'.resets = t_hist.resets =>
        \A k \in 1..Len(t_tracks') :
            (\A i \in 1..Len(t_tracks) : t_tracks[i].track_id # t_tracks'[k].track_id) =>
                \A n \in 1..Len(t_hist.epoch) : t_hist.epoch[n] # t_tracks'[k].track_id

\* C30: lost tracks are removed at the end of the cycle that marks them: after every
\* update no live track (get_all_tracks, get_track) is lost, and a removed track does
\* not come back under its id while there is no reset.
C30_LostRemovedForGood == []C30_NoLostState /\ [][C30_NoReturnStep]_vars

\* OBJ-00001 was lost and removed, the object came back as OBJ-00002, and get_track of
\* OBJ-00001 finds nothing
C30_Witness ==
    /\ t_hist.epoch = <<"OBJ-00001", "OBJ-00002">>
    /\ Len(t_tracks) = 1 /\ t_tracks[1].track_id = "OBJ-00002"
    /\ t_out = [op |-> "get_track", track_id |-> "OBJ-00001", found |-> FALSE]

\* the box a matched detection brings to the blend: its own, or the one the track has
C31_MatchedBox(det, track) == IF "bbox" \in DOMAIN det THEN det.bbox ELSE track.bbox

C31_PositionStep ==
    f_calls' = f_calls + 1 =>
        \A k \in 1..Len(f_tracks') :
            LET new == f_tracks'[k]
                olds == { i \in 1..Len(f_tracks) : f_tracks[i].track_id = new.track_id }
                hits == { n \in 1..Len(f_hist'.matched) :
                            f_hist'.matched[n][1] = new.track_id }
            IN  /\ olds = {} =>
                      /\ 2 * new.position[1] = 2 * new.bbox[1] + new.bbox[3]
                      /\ 2 * new.position[2] = 2 * new.bbox[2] + new.bbox[4]
                /\ \A i \in olds : \A n \in hits :
                      LET box == C31_MatchedBox(f_hist'.matched[n][2], f_tracks[i])
                          est == f_kalman_filters[new.track_id]
                      IN  /\ 20 * new.position[1] = 7 * (2 * box[1] + box[3]) + 6 * est[1]
                          /\ 20 * new.position[2] = 7 * (2 * box[2] + box[4]) + 6 * est[2]
                /\ \A i \in olds : hits = {} => new.position = f_tracks[i].position

\* C31: a new track's position is the centroid of its box; a match sets it to
\* 0.7 x (centroid of the matched box) + 0.3 x (the estimator's previous position);
\* a cycle without a match leaves it unchanged.
C31_PositionBlend == [][C31_PositionStep]_vars

\* T0001, created at BoxA (centre x 20), was matched by BoxB (centre x 30) and then
\* went through an unmatched cycle: 0.7 x 30 + 0.3 x 20 = 27
C31_Witness ==
    /\ f_calls = 3
    /\ \E k \in 1..Len(f_tracks) :
          /\ f_tracks[k].track_id = "T0001"
          /\ f_tracks[k].position = <<2700, 2000>>
          /\ f_tracks[k].age_frames = 1

\* every live track has an estimator and every estimator a live track; the estimator
\* has zero velocity, is where the track is reported, and is not moved by predict
C32_EstimatorState ==
    /\ DOMAIN f_kalman_filters = { f_tracks[k].track_id : k \in 1..Len(f_tracks) }
    /\ \A k \in 1..Len(f_tracks) :
          LET state == f_kalman_filters[f_tracks[k].track_id]
          IN  /\ state[3] = 0 /\ state[4] = 0
              /\ KalmanPredict(state) = state
              /\ f_tracks[k].position = <<state[1], state[2]>>
              /\ f_tracks[k].velocity \in {<<>>, <<0, 0>>}

\* the reported velocity is absent on a new track, zero after a match, and otherwise
\* as it was
C32_VelocityStep ==
    f_calls' = f_calls + 1 =>
        \A k \in 1..Len(f_tracks') :
            LET new == f_tracks'[k]
                olds == { i \in 1..Len(f_tracks) : f_tracks[i].track_id = new.track_id }
                was_matched == \E n \in 1..Len(f_hist'.matched) :
                                  f_hist'.matched[n][1] = new.track_id
            IN  /\ olds = {} => new.velocity = <<>>
                /\ was_matched => new.velocity = <<0, 0>>
                /\ \A i \in olds : ~was_matched => new.velocity = f_tracks[i].velocity

RECURSIVE C33_While(_, _, _, _, _, _)
C33_While(cost_matrix, track_ids, detections, m, n, fuel) ==
    IF cost_matrix = <<>> \/ m.unmatched_dets = <<>> \/ m.unmatched_tracks = <<>>
    THEN [iterations |-> n, finished |-> TRUE, shrinks |-> TRUE, m |-> m]
    ELSE IF fuel = 0
    THEN [iterations |-> n, finished |-> FALSE, shrinks |-> TRUE, m |-> m]
    ELSE LET r == TGreedyIteration(cost_matrix, track_ids, detections, m)
         IN  IF r.stop
             THEN [iterations |-> n + 1, finished |-> TRUE, shrinks |-> TRUE, m |-> m]
             ELSE LET rest == C33_While(cost_matrix, track_ids, detections, r.m,
                                        n + 1, fuel - 1)
                  IN  [rest EXCEPT !.shrinks =
                          /\ @
                          /\ Len(r.m.unmatched_dets) = Len(m.unmatched_dets) - 1
                          /\ Len(r.m.unmatched_tracks) = Len(m.unmatched_tracks) - 1
                          /\ Len(r.m.matched) = Len(m.matched) + 1]

\* the two "for" loops of _match_detections from detection i: passes of the outer
\* loop made, passes of the inner loop made, and the loop state at the end
RECURSIVE C33_For(_, _, _, _, _)
C33_For(tracks, detections, i, m, n) ==
    IF i > Len(detections) THEN [outer |-> i - 1, inner |-> n, m |-> m]
    ELSE LET det == detections[i]
             best_track == FBestTrack(tracks, m.unmatched_tracks,
                                      Get(det, "bbox", DefaultBBox), 1, <<0, 1>>, "")
             next == IF best_track = "" THEN m
                     ELSE [matched |-> Append(m.matched, <<best_track, det>>),
                           unmatched_dets |-> ListRemove(m.unmatched_dets, det),
                           unmatched_tracks |-> ListRemove(m.unmatched_tracks, best_track)]
         IN  C33_For(tracks, detections, i + 1, next, n + Len(m.unmatched_tracks))

C33_TrackerLoopStep ==
    t_calls' = t_calls + 1 =>
        LET p == [k \in 1..Len(t_tracks) |-> TPredict(t_tracks[k])]
            detections == t_hist'.detections
            m0 == [matched |-> <<>>,
                   unmatched_dets |-> [j \in 1..Len(detections) |-> j],
                   unmatched_tracks |-> TTrackIds(p)]
            loop == C33_While(TCostMatrix(p, detections), TTrackIds(p), detections, m0, 0,
                              Len(p) + Len(detections) + 1)
        IN  /\ t_out'.op = "update"
            /\ (p # <<>> /\ detections # <<>>) =>
                  /\ loop.finished
                  /\ loop.shrinks
                  /\ loop.iterations <= Min(Len(p), Len(detections))
                  /\ loop.m.matched = t_hist'.matched

C33_FusionLoopStep ==
    f_calls' = f_calls + 1 =>
        LET detections == f_hist'.reading.detections
            m0 == [matched |-> <<>>,
                   unmatched_dets |-> detections,
                   unmatched_tracks |-> FTrackIds(f_tracks)]
            loop == C33_For(f_tracks, detections, 1, m0, 0)
        IN  /\ f_out'.op = "update"
            /\ (f_tracks # <<>> /\ detections # <<>>) =>
                  /\ loop.outer = Len(detections)
                  /\ loop.inner <= Len(f_tracks) * Len(detections)
                  /\ loop.m.matched = f_hist'.matched

\* C33: every update call of either engine ends: the loops of the fusion association
\* make at most #tracks x #detections passes, and the tracker's greedy loop takes one
\* track and one detection out of the unmatched lists per pass or stops, so it makes at
\* most min(#tracks, #detections) passes.
C33_UpdateTerminates == [][C33_TrackerLoopStep /\ C33_FusionLoopStep]_vars

\* a tracker call in which the loop made two passes: two tracks, two detections, both
\* matched
C33_Witness ==
    /\ t_calls = 2
    /\ Len(t_hist.detections) = 2
    /\ Len(t_hist.matched) = 2
    /\ Len(t_tracks) = 2
    /\ f_calls = 1

\* no handler is suspended part-way: every request has not started or has finished
C34_NoHandlerSuspended ==
    \A i \in 1..Len(h_requests) : h_requests[i].pc = 1 \/ HFinished(h_requests[i])

\* a step that changes an engine is one whole call of one request's handler, made on
\* the state the step starts from; the response reports the state that call leaves
C34_WholeCallStep ==
    <<f_sensors, f_tracks, f_kalman_filters, f_next_track_id, t_tracks, t_next_id,
      f_out, t_out>>' # <<f_sensors, f_tracks, f_kalman_filters, f_next_track_id,
                          t_tracks, t_next_id, f_out, t_out>> =>
        /\ Len(h_requests') = Len(h_requests)
        /\ \E i \in 1..Len(h_requests) :
              LET req == h_requests[i]
                  e0 == [tracks |-> f_tracks, kalman_filters |-> f_kalman_filters,
                         next_track_id |-> f_next_track_id]
              IN  /\ req.pc = 1
                  /\ HFinished(h_requests'[i])
                  /\ \A j \in 1..Len(h_requests) : j # i => h_requests'[j] = h_requests[j]
                  /\ req.handler = "submit_sensor_data" =>
                        /\ f_tracks' = FTracksAfterUpdate(e0, req.arg)
                        /\ h_requests'[i].response.detection_count = Len(f_tracks')
                        /\ UNCHANGED <<t_tracks, t_next_id, t_out>>
                  /\ req.handler = "update_tracking" =>
                        /\ t_tracks' = TTracksAfterUpdate(t_tracks, t_next_id, req.arg)
                        /\ h_requests'[i].response.total_tracks = Len(t_tracks')
                        /\ h_requests'[i].response.confirmed_tracks =
                              Len(SelectSeq(t_tracks', LAMBDA t : t.is_confirmed))
                        /\ UNCHANGED <<f_sensors, f_tracks, f_kalman_filters,
                                       f_next_track_id, f_out>>
                  /\ req.handler = "reset_tracking" =>
                        /\ t_tracks' = <<>> /\ t_next_id' = 1
                        /\ UNCHANGED <<f_sensors, f_tracks, f_kalman_filters,
                                       f_next_track_id, f_out>>

\* C34: as the request layer is wired, calls on a shared engine do not interleave:
\* a handler that calls sensor_fusion.update, object_tracker.update or
\* object_tracker.reset runs to its end without a suspension point, so every change
\* of an engine is one whole call made on the state the previous call left.
C34_UpdatesNeverInterleave == []C34_NoHandlerSuspended /\ [][C34_WholeCallStep]_vars

\* three requests served out of arrival order: the update received first has not
\* started, the reset received second and the update received third have both run
C34_Witness ==
    /\ Len(h_requests) = 3
    /\ h_requests[1].handler = "update_tracking" /\ h_requests[1].pc = 1
    /\ h_requests[2].handler = "reset_tracking" /\ HFinished(h_requests[2])
    /\ h_requests[3].handler = "update_tracking" /\ HFinished(h_requests[3])
    /\ h_requests[3].response.total_tracks = 1
    /\ Len(t_tracks) = 1

\* the pre-existing tracks of the fusion engine that the last association left unmatched
C35_FUnmatchedTracks ==
    SelectSeq(f_tracks, LAMBDA t :
        \A n \in 1..Len(f_hist'.matched) : f_hist'.matched[n][1] # t.track_id)

C35_FusionMaximalStep ==
    f_calls' = f_calls + 1 =>
        LET dets == C28_Unmatched(f_hist'.reading.detections, f_hist'.matched, 1)
            tracks == C35_FUnmatchedTracks
        IN  \A d \in 1..Len(dets) : \A k \in 1..Len(tracks) :
                LET box == IF "bbox" \in DOMAIN dets[d] THEN dets[d].bbox
                           ELSE <<0, 0, 10000, 10000>>
                    iou == FCalculateIoU(box, tracks[k].bbox)
                IN  \* not iou > 0.3
                    ~FracLess(3, 10, iou[1], iou[2])

\* the tracks the tracker had before the call, as predicted, that the last association
\* left unmatched
C35_TUnmatchedTracks ==
    SelectSeq([k \in 1..Len(t_tracks) |-> TPredict(t_tracks[k])], LAMBDA t :
        \A n \in 1..Len(t_hist'.matched) : t_hist'.matched[n][1] # t.track_id)

C35_TrackerMaximalStep ==
    t_calls' = t_calls + 1 =>
        LET dets == C28_Unmatched(t_hist'.detections, t_hist'.matched, 1)
            tracks == C35_TUnmatchedTracks
        IN  \A d \in 1..Len(dets) : \A k \in 1..Len(tracks) :
                LET box == IF "bbox" \in DOMAIN dets[d] THEN dets[d].bbox
                           ELSE <<0, 0, 10000, 10000>>
                    track_bbox == IF tracks[k].predicted_bbox # <<>>
                                  THEN tracks[k].predicted_bbox ELSE tracks[k].bbox
                    iou == TIoU(track_bbox, box)
                IN  \* not iou >= 0.25
                    FracLess(iou[1], iou[2], 1, 4)

\* C35: association is maximal in both engines: after the matching of an update no
\* unmatched detection and unmatched pre-existing track have an IoU that passes the
\* engine's threshold (above 0.3 in the fusion engine, at least 0.25 in the tracker),
\* so a detection creates a track only if every track overlapping it enough was taken
\* by another detection of the call.
C35_AssociationMaximal == [][C35_FusionMaximalStep /\ C35_TrackerMaximalStep]_vars

\* the fusion engine had tracks at BoxA and BoxE; the reading [BoxB, BoxA] matched
\* BoxB to the track at BoxA, so the detection at BoxA, whose only overlapping track
\* was taken, created T0003
C35_Witness ==
    /\ f_calls = 2
    /\ Len(f_hist.reading.detections) = 2
    /\ f_hist.reading.detections[1].bbox = BoxB
    /\ f_hist.reading.detections[2].bbox = BoxA
    /\ Len(f_hist.matched) = 1 /\ f_hist.matched[1][1] = "T0001"
    /\ Len(f_tracks) = 3
    /\ f_tracks[1].bbox = BoxB
    /\ f_tracks[3].track_id = "T0003" /\ f_tracks[3].bbox = BoxA

\* what conservation asks of one update: old the tracks before the call, new the
\* tracks after it, gone the number of tracks the call's cleanup removed
C36_Conserved(old, new, gone, detections, matched) ==
    LET n == Len(detections)
        m == Len(matched)
        old_ids == { old[i].track_id : i \in 1..Len(old) }
        created == SelectSeq(new, LAMBDA t : t.track_id \notin old_ids)
    IN  /\ m <= Min(n, Len(old))
        /\ \A a \in 1..m : matched[a][1] \in old_ids
        /\ \A a, b \in 1..m : matched[a][1] = matched[b][1] => a = b
        /\ Len(C28_Unmatched(detections, matched, 1)) = n - m
        /\ Len(created) = n - m
        /\ \A a, b \in 1..Len(created) : created[a].track_id = created[b].track_id => a = b
        /\ Len(new) + gone = Len(old) + (n - m)

C36_FusionStep ==
    f_calls' = f_calls + 1 =>
        LET new_ids == { f_tracks'[k].track_id : k \in 1..Len(f_tracks') }
            gone == Len(SelectSeq(f_tracks, LAMBDA t : t.track_id \notin new_ids))
        IN  C36_Conserved(f_tracks, f_tracks', gone,
                          f_hist'.reading.detections, f_hist'.matched)

C36_TrackerStep ==
    t_calls' = t_calls + 1 =>
        /\ C36_Conserved(t_tracks, t_tracks', Len(t_hist'.removed),
                         t_hist'.detections, t_hist'.matched)
        /\ \A r \in 1..Len(t_hist'.removed) :
              \E i \in 1..Len(t_tracks) : t_tracks[i].track_id = t_hist'.removed[r].track_id

\* C36: detections are conserved in both engines: of the n detections of an update,
\* m <= min(n, #tracks) are matched to distinct pre-existing tracks, never to a track
\* created in the call, and each of the other n - m creates one new track with its own
\* id, so that the live set before cleanup has grown by n - m.
C36_DetectionsConserved == [][C36_FusionStep /\ C36_TrackerStep]_vars

\* a tracker call with two detections, one matched and one creating OBJ-00002, after
\* a fusion reading whose two detections both created a track
C36_Witness ==
    /\ t_calls = 2
    /\ Len(t_hist.detections) = 2
    /\ Len(t_hist.matched) = 1 /\ t_hist.matched[1][1] = "OBJ-00001"
    /\ Len(t_tracks) = 2 /\ t_tracks[2].track_id = "OBJ-00002"
    /\ f_calls = 1
    /\ Len(f_hist.reading.detections) = 2 /\ Len(f_hist.matched) = 0
    /\ Len(f_tracks) = 2

C37_MonotoneStep ==
    f_calls' = f_calls + 1 =>
        \A k \in 1..Len(f_tracks') : \A i \in 1..Len(f_tracks) :
            LET new == f_tracks'[k]
                old == f_tracks[i]
                matched_now == \E n \in 1..Len(f_hist'.matched) :
                                  f_hist'.matched[n][1] = new.track_id
                \* the reported velocity is set by the first match and kept (C32)
                matched_before == old.velocity # <<>>
            IN  (new.track_id = old.track_id /\ matched_now /\ matched_before) =>
                    new.fusion_confidence >= old.fusion_confidence

\* C37: from its first matched update on, a fused track's fusion_confidence does not
\* decrease from one matched update to the next; only the first match after creation
\* can lower it.
C37_FusionConfidenceNonDecreasing == [][C37_MonotoneStep]_vars

\* T0001, created by cam1, was matched by radar1 in the second call and by cam1 in the
\* third; its fusion confidence is 0.3 x 2 + 0.4 x 0.9 = 0.96 after both matches
C37_Witness ==
    /\ f_calls = 3
    /\ Len(f_tracks) = 1
    /\ f_tracks[1].sensor_sources = <<"cam1", "radar1">>
    /\ f_hist.reading.sensor_id = "cam1"
    /\ Len(f_hist.matched) = 1
    /\ f_tracks[1].class_confidence = 900
    /\ f_tracks[1].fusion_confidence = 960

\* every confidence a live track carries lies in [0, 1]
C38_ConfidencesInRange(tracks) ==
    \A k \in 1..Len(tracks) :
        /\ tracks[k].class_confidence \in 0..1000
        /\ tracks[k].fusion_confidence \in 0..1000

\* whether the track has class c: class names count in lower case, as the threat table
\* reads them
C38_HasClass(track, c) == Lower(track.class_name) = c

C38_Bounds ==
    (f_out.op = "update" /\ C38_ConfidencesInRange(f_tracks)) =>
        /\ (\A k \in 1..Len(f_tracks) :
                /\ ~C38_HasClass(f_tracks[k], "aircraft")
                /\ ~C38_HasClass(f_tracks[k], "weapon"))
              => f_out.threat_level = "LOW"
        /\ f_out.threat_level \in {"HIGH", "CRITICAL"} =>
              \E k \in 1..Len(f_tracks) : C38_HasClass(f_tracks[k], "weapon")

\* the update that removes the last aircraft or weapon track returns LOW
C38_BackToLowStep ==
    (/\ f_out'.op = "update"
     /\ C38_ConfidencesInRange(f_tracks')
     /\ \E i \in 1..Len(f_tracks) : Lower(f_tracks[i].class_name) \in {"aircraft", "weapon"}
     /\ \A k \in 1..Len(f_tracks') :
            Lower(f_tracks'[k].class_name) \notin {"aircraft", "weapon"})
        => f_out'.threat_level = "LOW"

C39_FusionKeepsStep ==
    f_calls' = f_calls + 1 =>
        LET old_ids == { f_tracks[i].track_id : i \in 1..Len(f_tracks) }
            new_ids == { f_tracks'[k].track_id : k \in 1..Len(f_tracks') }
            kept == SelectSeq(f_tracks, LAMBDA t : t.track_id \in new_ids)
            still == SelectSeq(f_tracks', LAMBDA t : t.track_id \in old_ids)
        IN  /\ Len(kept) = Len(still)
            /\ \A k \in 1..Len(kept) :
                  /\ still[k].track_id = kept[k].track_id
                  /\ still[k].class_name = kept[k].class_name
            /\ \A n \in 1..Len(f_hist'.matched) :
                  \E k \in 1..Len(kept) :
                      /\ kept[k].track_id = f_hist'.matched[n][1]
                      /\ ClassThreat(still[k].class_name) = ClassThreat(kept[k].class_name)

\* a tracker track matched by a detection that carries a class has that class afterwards
C39_TrackerReplacesStep ==
    t_calls' = t_calls + 1 =>
        \A n \in 1..Len(t_hist'.matched) :
            "class" \in DOMAIN t_hist'.matched[n][2] =>
                \A t \in SeqToSet(t_tracks') \cup SeqToSet(t_hist'.removed) :
                    t.track_id = t_hist'.matched[n][1] =>
                        t.class_name = t_hist'.matched[n][2].class

\* C39: a fused track's id and class never change after creation: a matched detection
\* of another class leaves the track's class, and so its threat weight, as the creating
\* detection set it; in the tracker a matched detection's class replaces the track's.
C39_FusionClassFixedTrackerClassFollows ==
    [][C39_FusionKeepsStep /\ C39_TrackerReplacesStep]_vars

\* both engines saw a person and then, at the same box, a weapon: the fused track is
\* still a person and the threat level LOW, the tracker's track is a weapon
C39_Witness ==
    /\ f_calls = 2 /\ t_calls = 2
    /\ Len(f_hist.matched) = 1 /\ f_hist.matched[1][2].class = "weapon"
    /\ Len(f_tracks) = 1 /\ f_tracks[1].class_name = "person"
    /\ f_out.threat_level = "LOW"
    /\ Len(t_hist.matched) = 1 /\ t_hist.matched[1][2].class = "weapon"
    /\ Len(t_tracks) = 1 /\ t_tracks[1].class_name = "weapon"

\* C40: a tracker after reset() is indistinguishable from a newly constructed one: for
\* every sequence of update and accessor calls applied after the reset, the track ids,
\* counters, flags and returned lists equal those a fresh ObjectTracker gives for the
\* same sequence, whatever happened before the reset.
C40_ResetIsFresh ==
    t_hist.resets > 0 =>
        /\ t_tracks = n_tracks
        /\ t_next_id = n_next_id
        /\ t_out.op # "reset" => t_out = n_out

\* the tracker had issued two ids before its reset; three updates later it holds, as
\* the fresh tracker does, the confirmed track OBJ-00001
C40_Witness ==
    /\ t_hist.resets = 1
    /\ Len(t_hist.issued) = 3
    /\ t_calls = 3
    /\ t_out.op = "update"
    /\ Len(t_out.result) = 1
    /\ t_out.result[1].track_id = TTrackIdOf(1)
    /\ t_out.result[1].is_confirmed
    /\ n_out = t_out

=============================================================================
